---- MODULE Spec2Model ----
(***************************************************************************)
(* Ingestion and fan-out engine of the token analytics service.            *)
(*                                                                         *)
(* Every asynchronous call of the program (a worker job, an enrolment, a   *)
(* subscribe handler, a metrics request) is a task: a record holding the   *)
(* mint it works on, its local variables and a stack of labels, one label  *)
(* per await point still to be executed.  One action of the model is the   *)
(* I/O of one await together with the synchronous code that follows it.    *)
(* The cache store (Redis), the persistent store (Prisma), the repeatable  *)
(* job list of the queue and the socket rooms are the shared variables.    *)
(***************************************************************************)
EXTENDS Integers, Sequences, FiniteSets, Bags, TLC

----------------------------------------------------------------------------
(* Bounds of the model *)

\* snapshots computed in one behaviour (values of Date.now())
MaxClock == 3
\* handlers in flight at the same time
MaxTasks == 2
\* seconds a behaviour of the history endpoint lasts
MaxNow == 1002
\* token accounts the chain reports for a mint
MaxHolders == 12
\* seconds a behaviour of the risk report lasts
MaxAge == 600
\* ms at which a behaviour of the aggregator client ends (it starts at 1000)
MaxTime == 1600
\* requests sent to the aggregator in one behaviour
MaxRequests == 3

(* Program constants *)
PRICE_POLL_INTERVAL == 1000
BAN_TTL == 86400
\* take of the PriceHistory query, and the windows in seconds
HISTORY_TAKE == 1000
WINDOW_1M == 60
WINDOW_5M == 300
WINDOW_1H == 3600
\* holders the concentration ratio is computed over, and its cap
TOP_HOLDERS == 10
RATIO_CAP == 100
\* largest limit of the holders endpoint
HOLDERS_MAX_LIMIT == 100
\* seconds a risk report is served from the cache
CACHE_TTL == 300
\* ms between two requests to the aggregator
RATE_LIMIT_DELAY == 200
\* ms getBatchTokenPrices waits after a token of a batch
BATCH_DELAY == 200
\* ms fetchSingleTokenPrice waits after a 429
BACKOFF_429 == 2000
\* selectBestPair: thresholds of the pair filter, in USD
MIN_LIQUIDITY_USD == 500
MIN_VOLUME_24H == 100
LAUNCHPAD_MIN_VOLUME == 1000
LAUNCHPAD_MIN_LIQUIDITY == 5000

SOL_MINT == "So11"
BAD_MINT == "BAD"
Mints == {"M1", "M2"}
AllMints == Mints \cup {SOL_MINT, BAD_MINT}
Conns == {"c1", "c2"}
\* the mint the handlers of a behaviour work on
Tracked == {"M1"}
\* values of the limit query parameter of the holders endpoint
LimitTexts == {"absent", "0", "-2", "3", "100", "101"}
\* the limits getTopHolders is called with
LimitValues == {0 - 2, 3, 10, 100}

VARIABLES
    chain,          \* chain[m]: what the chain currently says about mint m
    valCache,       \* token_validation:<m> key: cached verdict or "none"
    ban,            \* TTL the invalid_token:<m> key was set with (0: no key)
    latest,         \* TokenPrice row of m (NoSnap: no row)
    history,        \* PriceHistory rows of m, in id order
    repeatables,    \* repeatable jobs of the queue, keyed by name and period
    chan,           \* price_update messages published and not yet delivered
    hub,            \* price_update messages the socket service has received
    commits,        \* log of committed transactions of updateTokenPrice, in commit order
    lastJobStatus,  \* status label of the last pollingJobsTotal.inc for m
    connState,      \* socket of a connection: "new", "open" or "closed"
    registered,     \* sockets with an entry in socketSubscriptions
    subs,           \* subscriptions set of the entry of a socket
    rooms,          \* rooms[m]: sockets joined to room token:<m>
    inbox,          \* price_update broadcasts a socket has been sent
    lastEvt,        \* last event emitted to a socket by a handler
    banReturned,    \* a removeTokenFromTracking(m) has returned since the ban key was set
    tasks,          \* bag of the asynchronous calls in progress
    faults,         \* outages the deployment goes through: "rpc", "redis", "db"
    clock,          \* Date.now()
    res,            \* the last answer of an HTTP or service call
    accounts,       \* balances getTokenLargestAccounts reports, largest first
    supply,         \* totalSupply that getTokenInfo reports
    topCache,       \* top_holders:<m>:<limit> keys of the handled mint
    rugCache,       \* rugcheck:<m> key: the report cached and its timestamp
    instances,      \* job instances the queue holds, by mint, state and id
    bullKeys,       \* mints with queue-internal keys bull:price-tracking:*price-<m>*
    lastRequestTime, \* DexScreenerService.lastRequestTime, in ms
    requests,       \* start times of the requests sent to the aggregator, in ms
    pairs           \* pairs of the handled mint in an answer of the aggregator

vars == <<chain, valCache, ban, latest, history, repeatables,
          chan, hub, commits, lastJobStatus, connState, registered,
          subs, rooms, inbox, lastEvt, banReturned, tasks, faults, clock,
          res, accounts, supply, topCache, rugCache, instances, bullKeys,
          lastRequestTime, requests, pairs>>

storeVars == <<latest, history, commits>>
cacheVars == <<valCache, ban>>
sockVars == <<connState, registered, subs, rooms, inbox, lastEvt>>
apiVars == <<accounts, supply, topCache, rugCache>>
queueVars == <<instances, bullKeys>>
rateVars == <<lastRequestTime, requests, pairs>>

----------------------------------------------------------------------------
(* Values *)

NoSnap == [mint |-> "-", ts |-> 0, price |-> 0]

\* TokenPriceData of a mint with a price above 0 (1 stands for every such
\* price)
Snap(m, t) == [mint |-> m, ts |-> t, price |-> 1]

\* TokenPriceData with priceInSol p
Quote(m, t, p) == [Snap(m, t) EXCEPT !.price = p]

\* an answer: the call, its mint and argument, the HTTP status (0 for a
\* service call), the class of the body and the list it carries
Res(op, m, arg, status, body, data) ==
    [op |-> op, mint |-> m, arg |-> arg, status |-> status, body |-> body,
     data |-> data]

NoRes == Res("none", "-", 0, 0, "-", <<>>)

\* a cache key that holds a list, and one that is not set
Cached(l) == [set |-> TRUE, list |-> l]
NotCached == [set |-> FALSE, list |-> <<>>]

\* a rugcheck:<m> key that is not set
NoReport == [report |-> "none", at |-> 0]

NoEvt == [ev |-> "none", mint |-> "-", code |-> "-", snap |-> NoSnap, total |-> 0]

Evt(e, m, c, s) == [ev |-> e, mint |-> m, code |-> c, snap |-> s, total |-> 0]

\* an event that carries totalSubscriptions
EvtTotal(e, m, n) == [Evt(e, m, "-", NoSnap) EXCEPT !.total = n]

Range(s) == {s[i] : i \in 1..Len(s)}

\* TokenValidationResult: isValid together with the class of its reason
isValid(v) == v = "valid"

\* a validator that accepts every text as an address
validateAddressFormat_any(m) == TRUE

\* validateAddressFormat: length, base58 alphabet, PublicKey constructor
validateAddressFormat(m) == m # BAD_MINT

jobId(m) == m

RepeatKey(m, every) == [name |-> jobId(m), every |-> every]

HasJob(m) == \E r \in repeatables : r.name = jobId(m)

Banned(m) == ban[m] > 0

----------------------------------------------------------------------------
(* Tasks *)

NewTask(kind, m, c, pc) ==
    [kind |-> kind, mint |-> m, conn |-> c, pc |-> pc, verdict |-> "none",
     err |-> "none", caught |-> "none", snap |-> NoSnap, data |-> NoSnap,
     flag |-> FALSE, first |-> "none", arg |-> 0, list |-> <<>>, hit |-> FALSE,
     valid |-> <<>>, log |-> <<>>]

Running == BagToSet(tasks)

At(t, l) == t \in Running /\ t.pc # <<>> /\ Head(t.pc) = l

\* the task goes on at label l
Goto(t, l) == [t EXCEPT !.pc = <<l>> \o Tail(@)]

\* the current call returns to the label under it
Ret(t) == [t EXCEPT !.pc = Tail(@)]

\* the task calls a function whose labels are entry, and goes on at cont
Call(t, entry, cont) == [t EXCEPT !.pc = entry \o <<cont>> \o Tail(@)]

Replace(t, t2) ==
    tasks' = IF t2.pc = <<>>
             THEN tasks (-) SetToBag({t})
             ELSE (tasks (-) SetToBag({t})) (+) SetToBag({t2})

Spawn(t) ==
    /\ BagCardinality(tasks) < MaxTasks
    /\ tasks' = tasks (+) SetToBag({t})

validateEntry == <<"validate_get">>
updateEntry == <<"validate_get", "update_validated">>
getPriceEntry == <<"validate_get", "getPrice_validated">>
enrolEntry == <<"validate_get", "enrol_validated">>
removeEntry == <<"remove_ban">>

----------------------------------------------------------------------------
(* TokenValidationService.validateTokenMint *)

\* a cache store that never holds a key
redisGet_miss(v) == {"none"}

\* redis.get of a key: its value, or a rejection while the cache store is down
redisGet(v) == {v} \cup (IF "redis" \in faults THEN {"rejects"} ELSE {})

\* lines 38-65: native mint, format check, cache lookup
validateTokenMint_get(t) ==
    /\ At(t, "validate_get")
    /\ UNCHANGED <<queueVars, rateVars, apiVars, res, faults, chain, cacheVars, storeVars, repeatables, chan, hub,
                   lastJobStatus, sockVars, banReturned, clock>>
    /\ IF t.mint = SOL_MINT
       THEN Replace(t, Ret([t EXCEPT !.verdict = "valid", !.hit = FALSE]))
       ELSE IF ~validateAddressFormat(t.mint)
       THEN Replace(t, Ret([t EXCEPT !.verdict = "invalid", !.hit = FALSE]))
       ELSE \E o \in redisGet(valCache[t.mint]) :
              IF o = "rejects"
              THEN \* the catch of line 82 answers isValid false
                   Replace(t, Ret([t EXCEPT !.verdict = "failed", !.hit = FALSE]))
              ELSE IF o # "none"
              THEN \* line 63: the result is the cached one
                   Replace(t, Ret([t EXCEPT !.verdict = o, !.hit = TRUE]))
              ELSE Replace(t, Goto(t, "validate_chain"))

\* validateOnChain: the verdict of the chain, or isValid false with reason
\* "On-chain validation failed" when the RPC call rejects
validateOnChain(m) == {chain[m]} \cup (IF "rpc" \in faults THEN {"failed"} ELSE {})

\* lines 67-81: on-chain validation, then the verdict is cached for an hour
validateTokenMint_chain(t) ==
    /\ At(t, "validate_chain")
    /\ \E v \in validateOnChain(t.mint) :
          /\ valCache' = [valCache EXCEPT ![t.mint] = v]
          /\ Replace(t, Ret([t EXCEPT !.verdict = v, !.hit = FALSE]))
    /\ UNCHANGED <<queueVars, rateVars, apiVars, res, faults, chain, ban, storeVars, repeatables, chan, hub,
                   lastJobStatus, sockVars, banReturned, clock>>

\* validateTokenMint is called for a mint while no other call is in flight,
\* and once more as soon as it has returned
validateTwice(m) ==
    /\ tasks = EmptyBag
    /\ Spawn(NewTask("validate", m, "-", validateEntry \o <<"validate_second">>))
    /\ UNCHANGED <<queueVars, rateVars, apiVars, res, faults, chain, cacheVars, storeVars, repeatables, chan, hub,
                   lastJobStatus, sockVars, banReturned, clock>>

\* the first call has returned its verdict; the second call starts
validateTwice_second(t) ==
    /\ At(t, "validate_second")
    /\ Replace(t, Call([t EXCEPT !.first = t.verdict, !.verdict = "none", !.hit = FALSE],
                       validateEntry, "validate_done"))
    /\ UNCHANGED <<queueVars, rateVars, apiVars, res, faults, chain, cacheVars, storeVars, repeatables, chan, hub,
                   lastJobStatus, sockVars, banReturned, clock>>

\* the second call has returned its verdict
validateTwice_done(t) ==
    /\ At(t, "validate_done")
    /\ Replace(t, Ret(t))
    /\ UNCHANGED <<queueVars, rateVars, apiVars, res, faults, chain, cacheVars, storeVars, repeatables, chan, hub,
                   lastJobStatus, sockVars, banReturned, clock>>

----------------------------------------------------------------------------
(* Persistent store *)

\* a store without transactions: a rejected create keeps the upsert before it
Transaction_partial(lat, hist, s, outcome) ==
    IF outcome = "commit"
    THEN [latest |-> [lat EXCEPT ![s.mint] = s],
          history |-> [hist EXCEPT ![s.mint] = Append(@, s)]]
    ELSE IF outcome = "create_rejects"
    THEN [latest |-> [lat EXCEPT ![s.mint] = s], history |-> hist]
    ELSE [latest |-> lat, history |-> hist]

\* prisma.$transaction of updateTokenPrice: upsert of the TokenPrice row and
\* create of a PriceHistory row; a rejected transaction is rolled back
Transaction(lat, hist, s, outcome) ==
    IF outcome = "commit"
    THEN [latest |-> [lat EXCEPT ![s.mint] = s],
          history |-> [hist EXCEPT ![s.mint] = Append(@, s)]]
    ELSE [latest |-> lat, history |-> hist]

TxOutcomes ==
    {"commit"} \cup (IF "db" \in faults THEN {"upsert_rejects", "create_rejects"} ELSE {})

Committed == {commits[i].snap : i \in 1..Len(commits)}

\* committed snapshots of mint m whose publish has not been issued yet
Unpublished(m) ==
    {s \in Committed :
        /\ s.mint = m
        /\ \E t \in Running : t.snap = s /\ t.pc # <<>> /\ Head(t.pc) = "update_publish"}

----------------------------------------------------------------------------
(* PriceTrackingService.getTokenPrice *)

\* getTokenPriceInSolOptimized lines 697-749: what the call can resolve to;
\* the native mint is 1, a source that yields a price above 0 gives that
\* price, and when no source does the throw of line 743 is caught at line
\* 745 and 0 is returned
getTokenPriceInSolOptimized(m) ==
    IF m = SOL_MINT THEN {1}
    ELSE {1} \cup (IF "quotes" \in faults THEN {0} ELSE {})

\* lines 586-612: an invalid verdict is thrown; otherwise supply, price and
\* native price are fetched (each falls back instead of throwing) and the
\* snapshot is stamped with Date.now()
getTokenPrice_validated(t) ==
    /\ At(t, "getPrice_validated")
    /\ IF ~isValid(t.verdict)
       THEN /\ Replace(t, Ret([t EXCEPT !.verdict = "none", !.hit = FALSE, !.err = "invalid"]))
            /\ UNCHANGED clock
       ELSE /\ clock < MaxClock
            /\ clock' = clock + 1
            /\ \E p \in getTokenPriceInSolOptimized(t.mint) :
                  Replace(t, Ret([t EXCEPT !.verdict = "none", !.hit = FALSE,
                                           !.snap = Quote(t.mint, clock + 1, p)]))
    /\ UNCHANGED <<queueVars, rateVars, apiVars, res, faults, chain, cacheVars, storeVars, repeatables, chan, hub,
                   lastJobStatus, sockVars, banReturned>>

----------------------------------------------------------------------------
(* PriceTrackingService.updateTokenPrice and cleanupInvalidToken *)

\* the catch of lines 1186-1188: what updateTokenPrice lets reach its caller
\* of an error raised inside it
updateTokenPrice_catch(e) == "none"

\* lines 1141-1148 and cleanupInvalidToken lines 217-227: an invalid verdict
\* deletes history and row in one transaction; a valid one goes on to price
updateTokenPrice_validated(t) ==
    /\ At(t, "update_validated")
    /\ IF isValid(t.verdict)
       THEN /\ Replace(t, Call([t EXCEPT !.verdict = "none", !.hit = FALSE], getPriceEntry, "update_priced"))
            /\ UNCHANGED storeVars
       ELSE \E o \in TxOutcomes :
              IF o = "commit"
              THEN /\ latest' = [latest EXCEPT ![t.mint] = NoSnap]
                   /\ history' = [history EXCEPT ![t.mint] = <<>>]
                   /\ Replace(t, Goto([t EXCEPT !.verdict = "none", !.hit = FALSE], "cleanup_keys"))
                   /\ UNCHANGED commits
              ELSE \* the delete transaction rejects: cleanupInvalidToken logs it
                   /\ Replace(t, Ret([t EXCEPT !.verdict = "none", !.hit = FALSE, !.caught = "invalid",
                                     !.err = updateTokenPrice_catch("invalid")]))
                   /\ UNCHANGED storeVars
    /\ UNCHANGED <<queueVars, rateVars, apiVars, res, faults, chain, cacheVars, repeatables, chan, hub, lastJobStatus,
                   sockVars, banReturned, clock>>

\* cleanupInvalidToken lines 230-249 (the cached verdict is one of the keys
\* deleted), then the throw of line 1147 into the catch of line 1186
cleanupInvalidToken_keys(t) ==
    /\ At(t, "cleanup_keys")
    /\ valCache' = [valCache EXCEPT ![t.mint] = "none"]
    /\ Replace(t, Ret([t EXCEPT !.caught = "invalid",
                                !.err = updateTokenPrice_catch("invalid")]))
    /\ UNCHANGED <<queueVars, rateVars, apiVars, res, faults, chain, ban, storeVars, repeatables, chan, hub,
                   lastJobStatus, sockVars, banReturned, clock>>

\* an update that publishes whatever the transaction did
publishes_always(o) == TRUE

\* an update that publishes what it failed to write, and nothing else
publishes_rejected(o) == o # "commit"

\* lines 1153-1184: publish is reached only when the transaction resolved
publishes(o) == o = "commit"

\* lines 1150-1181: the snapshot is written in one transaction
updateTokenPrice_priced(t) ==
    /\ At(t, "update_priced")
    /\ IF t.err # "none"
       THEN /\ Replace(t, Ret([t EXCEPT !.caught = t.err,
                                        !.err = updateTokenPrice_catch(t.err)]))
            /\ UNCHANGED storeVars
       ELSE \E o \in TxOutcomes :
              LET r == Transaction(latest, history, t.snap, o) IN
              /\ latest' = r.latest
              /\ history' = r.history
              /\ commits' = IF o = "commit"
                            THEN Append(commits,
                                   [snap |-> t.snap, open |-> Unpublished(t.mint)])
                            ELSE commits
              /\ IF publishes(o)
                 THEN Replace(t, Goto(t, "update_publish"))
                 ELSE Replace(t, Ret([t EXCEPT !.snap = NoSnap, !.caught = "persist",
                                   !.err = updateTokenPrice_catch("persist")]))
    /\ UNCHANGED <<queueVars, rateVars, apiVars, res, faults, chain, cacheVars, repeatables, chan, hub, lastJobStatus,
                   sockVars, banReturned, clock>>

\* line 1184: the snapshot is published on price_update
updateTokenPrice_publish(t) ==
    /\ At(t, "update_publish")
    /\ chan' = Append(chan, t.snap)
    /\ Replace(t, Ret([t EXCEPT !.snap = NoSnap]))
    /\ UNCHANGED <<queueVars, rateVars, apiVars, res, faults, chain, cacheVars, storeVars, repeatables, hub,
                   lastJobStatus, sockVars, banReturned, clock>>

----------------------------------------------------------------------------
(* pollerWorker: obliterateTokenJobs, addTokenForTracking, removeTokenFromTracking *)

\* an obliterate that removes nothing
obliterateTokenJobs_none(q, m) == q

\* lines 197-222: every repeatable job named price-<m> is removed with its
\* own period
obliterateTokenJobs(q, m) == {r \in q : r.name # jobId(m)}

\* a queue whose period differs from one add to the next
queueAdd_jitter(q, m) == q \cup {RepeatKey(m, PRICE_POLL_INTERVAL + Cardinality(q))}

\* lines 176-184: priceQueue.add with repeat.every; the queue keeps one
\* repeatable job per name and period
queueAdd(q, m) == q \cup {RepeatKey(m, PRICE_POLL_INTERVAL)}

\* the job states obliterateTokenJobs goes through, line 225
allStates == <<"waiting", "active", "delayed", "completed", "failed", "paused">>

Instance(m, s, i) == [mint |-> m, state |-> s, id |-> i]

\* a lookup that obliterateTokenJobs has logged as failed
Failed(op, s) == [op |-> op, state |-> s]

\* whether a call to the queue or to its store rejects
rejects == IF "queue" \in faults THEN BOOLEAN ELSE {FALSE}

\* obliterateTokenJobs is called for a mint
obliterateTokenJobs_call(m) ==
    /\ res = NoRes
    /\ tasks = EmptyBag
    /\ Spawn(NewTask("obliterate", m, "-", <<"obliterate_repeatables">>))
    /\ UNCHANGED <<queueVars, rateVars, apiVars, res, faults, chain, cacheVars, storeVars, repeatables,
                   chan, hub, lastJobStatus, sockVars, banReturned, clock>>

\* lines 196-222 and 251-253: a rejected getRepeatableJobs is caught by the
\* outer handler, which ends the call; a repeatable job of the mint stays
\* when removeRepeatable rejects with its own and with the standard period
obliterateTokenJobs_repeatables(t) ==
    /\ At(t, "obliterate_repeatables")
    /\ \E f \in rejects :
          IF f
          THEN /\ res' = Res("obliterate", t.mint, 0, 0, "returned",
                             <<Failed("getRepeatableJobs", "-")>>)
               /\ Replace(t, Ret(t))
               /\ UNCHANGED repeatables
          ELSE \E kept \in SUBSET {r \in repeatables : r.name = jobId(t.mint)} :
                 /\ (kept # {}) \in rejects
                 /\ repeatables' = repeatables \ ({r \in repeatables : r.name = jobId(t.mint)} \ kept)
                 /\ UNCHANGED res
                 /\ Replace(t, Goto([t EXCEPT !.arg = 1,
                                              !.log = IF kept = {} THEN <<>>
                                                      ELSE <<Failed("removeRepeatable", "-")>>],
                                     "obliterate_state"))
    /\ UNCHANGED <<queueVars, rateVars, apiVars, faults, chain, cacheVars, storeVars,
                   chan, hub, lastJobStatus, sockVars, banReturned, clock>>

\* lines 228-241: the instances of one state are listed and those of the
\* mint removed one by one; a rejected getJobs or job.remove ends the work on
\* this state and the next state follows
obliterateTokenJobs_state(t) ==
    /\ At(t, "obliterate_state")
    /\ LET s == allStates[t.arg]
           J == {j \in instances : j.state = s /\ j.mint = t.mint}
           next(l) == IF t.arg < Len(allStates)
                      THEN [t EXCEPT !.arg = t.arg + 1, !.log = l]
                      ELSE Goto([t EXCEPT !.arg = 0, !.log = l], "obliterate_keys")
       IN  \E f \in rejects :
              IF f
              THEN /\ UNCHANGED instances
                   /\ Replace(t, next(Append(t.log, Failed("getJobs", s))))
              ELSE \E removed \in SUBSET J :
                     /\ (removed # J) \in rejects
                     /\ instances' = instances \ removed
                     /\ Replace(t, next(IF removed = J THEN t.log
                                        ELSE Append(t.log, Failed("remove", s))))
    /\ UNCHANGED <<bullKeys, rateVars, apiVars, res, faults, chain, cacheVars, storeVars, repeatables,
                   chan, hub, lastJobStatus, sockVars, banReturned, clock>>

\* a mint whose identifier is the identifier of M1 followed by one more
\* character
LONG_MINT == "M11"

\* a queue-internal key that names the job of mint k, as the characters of
\* bull:price-tracking:repeat:price-<k>:
bullKey(k) ==
    <<"bull:price-tracking:", "repeat:", "price-">>
       \o (CASE k = "M1" -> <<"M", "1">>
             [] k = "M2" -> <<"M", "2">>
             [] k = LONG_MINT -> <<"M", "1", "1">>
             [] OTHER -> <<k>>)
       \o <<":">>

\* the glob *<p>* of KEYS: p occurs somewhere in the key
matches(key, p) ==
    \E i \in 1..(Len(key) - Len(p) + 1) : SubSeq(key, i, i + Len(p) - 1) = p

\* line 244: redis.keys(`bull:price-tracking:*price-<m>*`), as the mints
\* whose keys are returned
redisKeys(m) ==
    {k \in bullKeys :
        matches(bullKey(k), SubSeq(bullKey(m), 3, Len(bullKey(m)) - 1))}

\* lines 244-253: the internal keys of the mint are scanned and deleted; a
\* rejection is caught by the outer handler; the call returns
obliterateTokenJobs_keys(t) ==
    /\ At(t, "obliterate_keys")
    /\ \E f \in rejects :
          IF f
          THEN /\ UNCHANGED bullKeys
               /\ res' = Res("obliterate", t.mint, 0, 0, "returned",
                             Append(t.log, Failed("keys", "-")))
          ELSE /\ bullKeys' = bullKeys \ redisKeys(t.mint)
               /\ res' = Res("obliterate", t.mint, 0, 0, "returned", t.log)
    /\ Replace(t, Ret(t))
    /\ UNCHANGED <<instances, rateVars, apiVars, faults, chain, cacheVars, storeVars, repeatables,
                   chan, hub, lastJobStatus, sockVars, banReturned, clock>>

\* an enrolment that never reads the ban key
refused_never(m) == FALSE

\* lines 163-168: the ban list is checked once more before the job is added
refused(m) == Banned(m)

\* lines 148-168: an invalid verdict bans the mint for 24 h; a valid one is
\* checked against the ban key
addTokenForTracking_validated(t) ==
    /\ At(t, "enrol_validated")
    /\ IF ~isValid(t.verdict)
       THEN /\ ban' = [ban EXCEPT ![t.mint] = BAN_TTL]
            /\ Replace(t, Ret([t EXCEPT !.verdict = "none", !.hit = FALSE]))
       ELSE /\ UNCHANGED ban
            /\ IF refused(t.mint)
               THEN Replace(t, Ret([t EXCEPT !.verdict = "none", !.hit = FALSE]))
               ELSE Replace(t, Goto([t EXCEPT !.verdict = "none", !.hit = FALSE], "enrol_obliterate"))
    /\ UNCHANGED <<queueVars, rateVars, apiVars, res, faults, chain, valCache, storeVars, repeatables, chan, hub,
                   lastJobStatus, sockVars, banReturned, clock>>

\* line 173
addTokenForTracking_obliterate(t) ==
    /\ At(t, "enrol_obliterate")
    /\ repeatables' = obliterateTokenJobs(repeatables, t.mint)
    /\ Replace(t, Goto(t, "enrol_add"))
    /\ UNCHANGED <<queueVars, rateVars, apiVars, res, faults, chain, cacheVars, storeVars, chan, hub, lastJobStatus,
                   sockVars, banReturned, clock>>

\* lines 176-186; a rejected priceQueue.add is thrown to the caller
addTokenForTracking_add(t) ==
    /\ At(t, "enrol_add")
    /\ \E r \in rejects :
          IF r
          THEN /\ Replace(t, Ret([t EXCEPT !.err = "queue"]))
               /\ UNCHANGED repeatables
          ELSE /\ repeatables' = queueAdd(repeatables, t.mint)
               /\ Replace(t, Ret(t))
    /\ UNCHANGED <<queueVars, rateVars, apiVars, res, faults, chain, cacheVars, storeVars, chan, hub, lastJobStatus,
                   sockVars, banReturned, clock>>

\* removeTokenFromTracking is called for a mint while nothing else runs
removeTokenFromTracking_call(m) ==
    /\ res = NoRes
    /\ tasks = EmptyBag
    /\ ~Banned(m)
    /\ Spawn(NewTask("remove", m, "-", <<"remove_ban">>))
    /\ UNCHANGED <<queueVars, rateVars, apiVars, res, faults, chain, cacheVars, storeVars, repeatables,
                   chan, hub, lastJobStatus, sockVars, banReturned, clock>>

\* line 263: the ban key is set first, for 24 h
removeTokenFromTracking_ban(t) ==
    /\ At(t, "remove_ban")
    /\ ban' = [ban EXCEPT ![t.mint] = BAN_TTL]
    /\ Replace(t, Goto(t, "remove_obliterate"))
    /\ UNCHANGED <<queueVars, rateVars, apiVars, res, faults, chain, valCache, storeVars, repeatables, chan, hub,
                   lastJobStatus, sockVars, banReturned, clock>>

\* line 266
removeTokenFromTracking_obliterate(t) ==
    /\ At(t, "remove_obliterate")
    /\ repeatables' = obliterateTokenJobs(repeatables, t.mint)
    /\ Replace(t, Goto(t, "remove_history"))
    /\ UNCHANGED <<queueVars, rateVars, apiVars, res, faults, chain, cacheVars, storeVars, chan, hub, lastJobStatus,
                   sockVars, banReturned, clock>>

\* line 269
removeTokenFromTracking_history(t) ==
    /\ At(t, "remove_history")
    /\ history' = [history EXCEPT ![t.mint] = <<>>]
    /\ Replace(t, Goto(t, "remove_latest"))
    /\ UNCHANGED <<queueVars, rateVars, apiVars, res, faults, chain, cacheVars, latest, commits, repeatables, chan, hub,
                   lastJobStatus, sockVars, banReturned, clock>>

\* lines 270-272
removeTokenFromTracking_latest(t) ==
    /\ At(t, "remove_latest")
    /\ latest' = [latest EXCEPT ![t.mint] = NoSnap]
    /\ banReturned' = [banReturned EXCEPT ![t.mint] = Banned(t.mint)]
    /\ Replace(t, Ret(t))
    /\ UNCHANGED <<queueVars, rateVars, apiVars, res, faults, chain, cacheVars, history, commits, repeatables, chan, hub,
                   lastJobStatus, sockVars, clock>>

----------------------------------------------------------------------------
(* pollerWorker: the worker and the start-up scheduling *)

\* a worker that never finds the ban key
isInvalid_never(m) == FALSE

\* lines 29-30: redis.get of invalid_token:<m>
isInvalid(m) == Banned(m)

\* lines 24-38: a job of the repeatable price-<m> starts; a banned mint is
\* removed from tracking, any other is updated
worker_job(m) ==
    /\ HasJob(m)
    /\ IF isInvalid(m)
       THEN Spawn(NewTask("job", m, "-", removeEntry \o <<"worker_skipped">>))
       ELSE Spawn(NewTask("job", m, "-", updateEntry \o <<"worker_updated">>))
    /\ UNCHANGED <<queueVars, rateVars, apiVars, res, faults, chain, cacheVars, storeVars, repeatables, chan, hub,
                   lastJobStatus, sockVars, banReturned, clock>>

\* lines 39-50: the outcome of updateTokenPrice is counted
worker_updated(t) ==
    /\ At(t, "worker_updated")
    /\ IF t.err = "none"
       THEN /\ lastJobStatus' = [lastJobStatus EXCEPT ![t.mint] = "success"]
            /\ Replace(t, Ret(t))
       ELSE IF t.err = "invalid"
       THEN /\ UNCHANGED lastJobStatus
            /\ Replace(t, Call([t EXCEPT !.err = "none"], removeEntry, "worker_removed"))
       ELSE /\ lastJobStatus' = [lastJobStatus EXCEPT ![t.mint] = "error"]
            /\ Replace(t, Ret(t))
    /\ UNCHANGED <<queueVars, rateVars, apiVars, res, faults, chain, cacheVars, storeVars, repeatables, chan, hub,
                   sockVars, banReturned, clock>>

\* lines 33-34 and 43-45: removeTokenFromTracking has returned
worker_removed(t) ==
    /\ t \in Running
    /\ t.pc # <<>>
    /\ Head(t.pc) \in {"worker_skipped", "worker_removed"}
    /\ lastJobStatus' = IF Head(t.pc) = "worker_skipped"
                        THEN lastJobStatus
                        ELSE [lastJobStatus EXCEPT ![t.mint] = "invalid"]
    /\ Replace(t, Ret(t))
    /\ UNCHANGED <<queueVars, rateVars, apiVars, res, faults, chain, cacheVars, storeVars, repeatables, chan, hub,
                   sockVars, banReturned, clock>>

\* schedulePriceTrackingJobs lines 69-86: a tracked mint that is not banned
\* is kept for scheduling
schedulePriceTrackingJobs(m) ==
    /\ latest[m] # NoSnap
    /\ ~Banned(m)
    /\ Spawn(NewTask("schedule", m, "-", <<"schedule_enrol">>))
    /\ UNCHANGED <<queueVars, rateVars, apiVars, res, faults, chain, cacheVars, storeVars, repeatables, chan, hub,
                   lastJobStatus, sockVars, banReturned, clock>>

\* lines 90-92: addTokenForTracking is called for a mint that was kept
schedulePriceTrackingJobs_enrol(t) ==
    /\ At(t, "schedule_enrol")
    /\ tasks' = (tasks (-) SetToBag({t}))
                (+) SetToBag({[NewTask("enrol", t.mint, "-", enrolEntry)
                                 EXCEPT !.flag = banReturned[t.mint]]})
    /\ UNCHANGED <<queueVars, rateVars, apiVars, res, faults, chain, cacheVars, storeVars, repeatables, chan, hub,
                   lastJobStatus, sockVars, banReturned, clock>>

\* PriceTrackingService.getTrackedTokens: the mints of the TokenPrice rows,
\* latest update first, in any order where the updates are of the same time
getTrackedTokens ==
    LET S == {m \in AllMints : latest[m] # NoSnap}
    IN  {s \in [1..Cardinality(S) -> S] :
            /\ Range(s) = S
            /\ \A i, j \in 1..Cardinality(S) :
                  i < j => latest[s[i]].ts >= latest[s[j]].ts}

\* lines 130-142: the process starts; the clean-up of the store is awaited,
\* then the scheduling
startWorker ==
    /\ res = NoRes
    /\ tasks = EmptyBag
    /\ Spawn(NewTask("start", "-", "-", <<"cleanup_tokens", "start_schedule">>))
    /\ UNCHANGED <<queueVars, rateVars, apiVars, res, faults, chain, cacheVars, storeVars, repeatables, chan, hub,
                   lastJobStatus, sockVars, banReturned, clock>>

\* line 141: every 10 minutes after the start the clean-up runs again
setInterval_cleanup ==
    /\ res.op = "startWorker"
    /\ Spawn(NewTask("sweep", "-", "-", <<"cleanup_tokens">>))
    /\ UNCHANGED <<queueVars, rateVars, apiVars, res, faults, chain, cacheVars, storeVars, repeatables, chan, hub,
                   lastJobStatus, sockVars, banReturned, clock>>

\* cleanupInvalidTokensFromDatabase line 107
cleanupInvalidTokensFromDatabase_tokens(t) ==
    /\ At(t, "cleanup_tokens")
    /\ \E l \in getTrackedTokens :
          Replace(t, Goto([t EXCEPT !.list = l], "cleanup_next"))
    /\ UNCHANGED <<queueVars, rateVars, apiVars, res, faults, chain, cacheVars, storeVars, repeatables, chan, hub,
                   lastJobStatus, sockVars, banReturned, clock>>

\* lines 110-114: the ban key of the next mint is read
cleanupInvalidTokensFromDatabase_next(t) ==
    /\ At(t, "cleanup_next")
    /\ IF t.list = <<>>
       THEN Replace(t, Ret([t EXCEPT !.mint = "-"]))
       ELSE IF Banned(Head(t.list))
       THEN Replace(t, Goto([t EXCEPT !.mint = Head(t.list), !.list = Tail(t.list)],
                            "cleanup_history"))
       ELSE Replace(t, [t EXCEPT !.list = Tail(t.list)])
    /\ UNCHANGED <<queueVars, rateVars, apiVars, res, faults, chain, cacheVars, storeVars, repeatables, chan, hub,
                   lastJobStatus, sockVars, banReturned, clock>>

\* line 116
cleanupInvalidTokensFromDatabase_history(t) ==
    /\ At(t, "cleanup_history")
    /\ history' = [history EXCEPT ![t.mint] = <<>>]
    /\ Replace(t, Goto(t, "cleanup_latest"))
    /\ UNCHANGED <<queueVars, rateVars, apiVars, res, faults, chain, cacheVars, latest, commits, repeatables, chan, hub,
                   lastJobStatus, sockVars, banReturned, clock>>

\* line 117
cleanupInvalidTokensFromDatabase_latest(t) ==
    /\ At(t, "cleanup_latest")
    /\ latest' = [latest EXCEPT ![t.mint] = NoSnap]
    /\ Replace(t, Goto(t, "cleanup_next"))
    /\ UNCHANGED <<queueVars, rateVars, apiVars, res, faults, chain, cacheVars, history, commits, repeatables, chan, hub,
                   lastJobStatus, sockVars, banReturned, clock>>

\* schedulePriceTrackingJobs line 69, called by startWorker line 136
schedulePriceTrackingJobs_tokens(t) ==
    /\ At(t, "start_schedule")
    /\ \E l \in getTrackedTokens :
          Replace(t, Goto([t EXCEPT !.list = l, !.valid = <<>>], "schedule_filter"))
    /\ UNCHANGED <<queueVars, rateVars, apiVars, res, faults, chain, cacheVars, storeVars, repeatables, chan, hub,
                   lastJobStatus, sockVars, banReturned, clock>>

\* lines 75-86: the ban key of the next mint is read; a mint that is not
\* banned is kept
schedulePriceTrackingJobs_filter(t) ==
    /\ At(t, "schedule_filter")
    /\ IF t.list = <<>>
       THEN Replace(t, Goto(t, "schedule_next"))
       ELSE IF Banned(Head(t.list))
       THEN Replace(t, [t EXCEPT !.list = Tail(t.list)])
       ELSE Replace(t, [t EXCEPT !.list = Tail(t.list),
                                 !.valid = Append(t.valid, Head(t.list))])
    /\ UNCHANGED <<queueVars, rateVars, apiVars, res, faults, chain, cacheVars, storeVars, repeatables, chan, hub,
                   lastJobStatus, sockVars, banReturned, clock>>

\* lines 90-92: addTokenForTracking is awaited for each mint that was kept;
\* after the last one startWorker returns
schedulePriceTrackingJobs_next(t) ==
    /\ At(t, "schedule_next")
    /\ IF t.valid = <<>>
       THEN /\ res' = Res("startWorker", "-", 0, 0, "done", <<>>)
            /\ Replace(t, Ret(t))
       ELSE /\ UNCHANGED res
            /\ Replace(t, Call([t EXCEPT !.mint = Head(t.valid),
                                         !.valid = Tail(t.valid)],
                               enrolEntry, "schedule_next"))
    /\ UNCHANGED <<queueVars, rateVars, apiVars, faults, chain, cacheVars, storeVars, repeatables, chan, hub,
                   lastJobStatus, sockVars, banReturned, clock>>

----------------------------------------------------------------------------
(* DexScreenerService: rateLimit, getBatchTokenPrices, getSolPriceUsd *)

\* line 86
timeSinceLastRequest(now) == now - lastRequestTime

\* getBatchTokenPrices lines 101-132 for mints that are not in the price
\* cache: one batch, which goes through the limiter first
getBatchTokenPrices(batch) ==
    /\ Spawn([NewTask("prices", "-", "-", <<"rate_limit", "batch_fetch">>)
                 EXCEPT !.valid = batch])
    /\ UNCHANGED <<rateVars, queueVars, apiVars, res, faults, chain, cacheVars, storeVars, repeatables,
                   chan, hub, lastJobStatus, sockVars, banReturned, clock>>

\* getSolPriceUsd lines 467-479 when the cached price is older than 30 s
getSolPriceUsd ==
    /\ Spawn(NewTask("solPrice", SOL_MINT, "-", <<"rate_limit", "sol_fetch">>))
    /\ UNCHANGED <<rateVars, queueVars, apiVars, res, faults, chain, cacheVars, storeVars, repeatables,
                   chan, hub, lastJobStatus, sockVars, banReturned, clock>>

\* rateLimit lines 85-93: the time since the last request is computed; when
\* it is short a timer is set for the rest, otherwise lastRequestTime is set
rateLimit(t) ==
    /\ At(t, "rate_limit")
    /\ IF timeSinceLastRequest(clock) < RATE_LIMIT_DELAY
       THEN /\ Replace(t, Goto([t EXCEPT !.arg = clock + RATE_LIMIT_DELAY
                                                    - timeSinceLastRequest(clock)],
                               "rate_wake"))
            /\ UNCHANGED lastRequestTime
       ELSE /\ lastRequestTime' = clock
            /\ Replace(t, Ret(t))
    /\ UNCHANGED <<requests, pairs, queueVars, apiVars, res, faults, chain, cacheVars, storeVars,
                   repeatables, chan, hub, lastJobStatus, sockVars, banReturned, clock>>

\* lines 90-93: the timer has fired
rateLimit_wake(t) ==
    /\ At(t, "rate_wake")
    /\ clock >= t.arg
    /\ lastRequestTime' = clock
    /\ Replace(t, Ret([t EXCEPT !.arg = 0]))
    /\ UNCHANGED <<requests, pairs, queueVars, apiVars, res, faults, chain, cacheVars, storeVars,
                   repeatables, chan, hub, lastJobStatus, sockVars, banReturned, clock>>

\* lines 135-137 and 203-215: the request for the next mint of the batch is
\* sent; after the last mint the call returns
getBatchTokenPrices_fetch(t) ==
    /\ At(t, "batch_fetch")
    /\ IF t.valid = <<>>
       THEN /\ Replace(t, Ret(t))
            /\ UNCHANGED requests
       ELSE /\ Len(requests) < MaxRequests
            /\ requests' = Append(requests, clock)
            /\ Replace(t, Goto([t EXCEPT !.mint = Head(t.valid), !.valid = Tail(t.valid)],
                               "batch_response"))
    /\ UNCHANGED <<lastRequestTime, pairs, queueVars, apiVars, res, faults, chain, cacheVars,
                   storeVars, repeatables, chan, hub, lastJobStatus, sockVars,
                   banReturned, clock>>

\* lines 137-144 and 216-228: the answer has arrived; after a result the
\* batch waits 200 ms, after a 429 fetchSingleTokenPrice waits 2 s and
\* rethrows, and any other error is rethrown at once; the handler of line
\* 142 goes on to the next mint
getBatchTokenPrices_response(t) ==
    /\ At(t, "batch_response")
    /\ \E o \in {"ok", "429", "error"} :
          Replace(t, IF o = "ok"
                     THEN Goto([t EXCEPT !.arg = clock + BATCH_DELAY], "batch_sleep")
                     ELSE IF o = "429"
                     THEN Goto([t EXCEPT !.arg = clock + BACKOFF_429], "batch_sleep")
                     ELSE Goto(t, "batch_fetch"))
    /\ UNCHANGED <<rateVars, queueVars, apiVars, res, faults, chain, cacheVars, storeVars, repeatables,
                   chan, hub, lastJobStatus, sockVars, banReturned, clock>>

\* lines 141 and 223: the timer has fired
getBatchTokenPrices_sleep(t) ==
    /\ At(t, "batch_sleep")
    /\ clock >= t.arg
    /\ Replace(t, Goto([t EXCEPT !.arg = 0], "batch_fetch"))
    /\ UNCHANGED <<rateVars, queueVars, apiVars, res, faults, chain, cacheVars, storeVars, repeatables,
                   chan, hub, lastJobStatus, sockVars, banReturned, clock>>

\* getSolPriceUsd lines 481-489: the request is sent
getSolPriceUsd_fetch(t) ==
    /\ At(t, "sol_fetch")
    /\ Len(requests) < MaxRequests
    /\ requests' = Append(requests, clock)
    /\ Replace(t, Ret(t))
    /\ UNCHANGED <<lastRequestTime, pairs, queueVars, apiVars, res, faults, chain, cacheVars,
                   storeVars, repeatables, chan, hub, lastJobStatus, sockVars,
                   banReturned, clock>>

\* 100 ms pass; a call that has come back from an await sends its request
\* in the same turn of the event loop, before any time passes
Pass ==
    /\ clock + 100 <= MaxTime
    /\ \A t \in Running : ~At(t, "batch_fetch") /\ ~At(t, "sol_fetch")
    /\ clock' = clock + 100
    /\ UNCHANGED <<rateVars, queueVars, apiVars, res, faults, chain, cacheVars, storeVars, repeatables,
                   chan, hub, lastJobStatus, sockVars, banReturned, tasks>>

----------------------------------------------------------------------------
(* DexScreenerService: selectBestPair, calculatePairScore *)

\* the words of the filters that a venue id contains
Words(dexId) ==
    CASE dexId = "raydium" -> {"raydium"}
      [] dexId = "pumpswap" -> {"pump"}
      [] dexId = "launchlab" -> {"launch", "lab"}
      [] OTHER -> {}

\* String.prototype.includes on a venue id or a pair address
includes(text, w) == w \in Words(text) \/ (text = "apump" /\ w = "pump")

\* Array.prototype.some over a list of words
some(words, text) == \E w \in words : includes(text, w)

\* Array.prototype.reduce without an initial value, with a callback that
\* keeps the best so far unless the current element has a greater key
RECURSIVE reduceBest(_, _, _, _)
reduceBest(l, key, best, i) ==
    IF i > Len(l) THEN best
    ELSE reduceBest(l, key, IF key[l[i]] > key[best] THEN l[i] ELSE best, i + 1)

\* lines 301-306
isLaunchpad(p) ==
    \/ some({"pump", "launch", "lab"}, p.dexId)
    \/ p.dexId = "launchlab"
    \/ includes(p.pairAddress, "pump")

\* lines 293-338: the filter of the quality pairs
isQuality(p) ==
    /\ isLaunchpad(p)
          => (p.volume > LAUNCHPAD_MIN_VOLUME /\ p.liquidity > LAUNCHPAD_MIN_LIQUIDITY)
    /\ IF some({"raydium", "orca", "jupiter", "meteora"}, p.dexId)
       THEN ~(p.liquidity < MIN_LIQUIDITY_USD)
       ELSE ~(p.volume < MIN_VOLUME_24H \/ p.liquidity < MIN_LIQUIDITY_USD)

\* lines 400-435, ten times the score so that it stays an integer; the
\* pairs carry no transaction counts
calculatePairScore(p) ==
      3 * p.liquidity
    + 4 * p.volume
    + (IF some({"raydium", "orca", "jupiter"}, p.dexId) THEN 500000 ELSE 0)
    + (IF includes(p.dexId, "pump") \/ includes(p.dexId, "launch")
             \/ includes(p.pairAddress, "pump")
       THEN IF p.volume > 100000 THEN 0 - 100000 ELSE 0 - 1000000
       ELSE 0)
    + (IF p.liquidity > 0 /\ 10 * p.volume > p.liquidity THEN 150000 ELSE 0)

bestByScore(l) == reduceBest(l, [p \in Range(l) |-> calculatePairScore(p)], l[1], 2)

\* lines 274-398: null is <<>>, a pair is a list of one
selectBestPair(l, m) ==
    IF Len(l) = 0 THEN <<>>
    ELSE IF Len(l) = 1 THEN <<l[1]>>
    ELSE LET qualityPairs == SelectSeq(l, isQuality)
             established == SelectSeq(qualityPairs,
                                      LAMBDA p : some({"raydium", "orca", "jupiter",
                                                       "aldrin", "saber"}, p.dexId))
             establishedPairs == IF Len(established) = 0 THEN qualityPairs
                                 ELSE established
             solPairs == SelectSeq(establishedPairs, LAMBDA p : p.quote = SOL_MINT)
             usdcPairs == SelectSeq(establishedPairs, LAMBDA p : p.quote = "USDC")
         IN  IF Len(qualityPairs) = 0
             THEN <<reduceBest(l, [p \in Range(l) |-> p.liquidity], l[1], 2)>>
             ELSE IF Len(solPairs) > 0 THEN <<bestByScore(solPairs)>>
             ELSE IF Len(usdcPairs) > 0 THEN <<bestByScore(usdcPairs)>>
             ELSE <<bestByScore(establishedPairs)>>

\* processPairsResponse lines 252-257: the best pair of the pairs of a mint
processPairsResponse(m) ==
    /\ res = NoRes
    /\ res' = Res("selectBestPair", m, Len(pairs), 0, "-", selectBestPair(pairs, m))
    /\ UNCHANGED <<rateVars, queueVars, apiVars, faults, chain, cacheVars, storeVars, repeatables,
                   chan, hub, lastJobStatus, sockVars, banReturned, tasks, clock>>

----------------------------------------------------------------------------
(* SocketService *)

Emit(c, e) == lastEvt' = [lastEvt EXCEPT ![c] = e]

\* setupNamespace lines 31-42: the socket gets its entry and the welcome
connection(c) ==
    /\ connState[c] = "new"
    /\ connState' = [connState EXCEPT ![c] = "open"]
    /\ registered' = registered \cup {c}
    /\ subs' = [subs EXCEPT ![c] = {}]
    /\ Emit(c, Evt("connected", "-", "-", NoSnap))
    /\ UNCHANGED <<queueVars, rateVars, apiVars, res, faults, chain, cacheVars, storeVars, repeatables, chan, hub,
                   lastJobStatus, rooms, inbox, banReturned, tasks, clock>>

\* handleSubscriptionMessage lines 78-81: "<mint>,subscribe" arrives
message_subscribe(c, m) ==
    /\ connState[c] = "open"
    /\ Spawn(NewTask("subscribe", m, c, validateEntry \o <<"subscribe_validated">>))
    /\ UNCHANGED <<queueVars, rateVars, apiVars, res, faults, chain, cacheVars, storeVars, repeatables, chan, hub,
                   lastJobStatus, sockVars, banReturned, clock>>

\* a check that never finds the mint in the set
alreadySubscribed_never(S, m) == FALSE

\* line 119: subscriptions.has(tokenMint)
alreadySubscribed(S, m) == m \in S

\* subscribeToToken lines 101-135
subscribeToToken_validated(t) ==
    /\ At(t, "subscribe_validated")
    /\ IF ~isValid(t.verdict)
       THEN /\ Emit(t.conn, Evt("subscription_error", t.mint, "INVALID_TOKEN_MINT", NoSnap))
            /\ Replace(t, Ret(t))
            /\ UNCHANGED <<subs, rooms>>
       ELSE IF t.conn \notin registered
       THEN /\ Emit(t.conn, Evt("error", "-", "-", NoSnap))
            /\ Replace(t, Ret(t))
            /\ UNCHANGED <<subs, rooms>>
       ELSE IF alreadySubscribed(subs[t.conn], t.mint)
       THEN /\ Emit(t.conn, Evt("subscription_status", t.mint, "already_subscribed", NoSnap))
            /\ Replace(t, Ret(t))
            /\ UNCHANGED <<subs, rooms>>
       ELSE /\ subs' = [subs EXCEPT ![t.conn] = @ \cup {t.mint}]
            /\ rooms' = [rooms EXCEPT ![t.mint] = @ \cup {t.conn}]
            /\ Replace(t, Goto([t EXCEPT !.verdict = "none", !.hit = FALSE], "subscribe_current"))
            /\ UNCHANGED lastEvt
    /\ UNCHANGED <<queueVars, rateVars, apiVars, res, faults, chain, cacheVars, storeVars, repeatables, chan, hub,
                   lastJobStatus, connState, registered, inbox, banReturned, clock>>

\* lines 159-174: the initial price_update, then subscription_success
\* (recorded as one event carrying the snapshot sent); totalSubscriptions is
\* the size of the set at the emit
SubscriptionSuccess(t, s) ==
    Emit(t.conn, [Evt("subscription_success", t.mint, "-", s)
                     EXCEPT !.total = Cardinality(subs[t.conn])])

\* lines 142-157: getCurrentPrice; a tracked mint is answered at once
subscribeToToken_current(t) ==
    /\ At(t, "subscribe_current")
    /\ IF latest[t.mint] # NoSnap
       THEN /\ SubscriptionSuccess(t, latest[t.mint])
            /\ Replace(t, Ret(t))
       ELSE /\ Replace(t, Call(t, getPriceEntry, "subscribe_priced"))
            /\ UNCHANGED lastEvt
    /\ UNCHANGED <<queueVars, rateVars, apiVars, res, faults, chain, cacheVars, storeVars, repeatables, chan, hub,
                   lastJobStatus, connState, registered, subs, rooms, inbox,
                   banReturned, clock>>

\* a catch that reports the failure and keeps set and room as they are
subscribeToToken_catch_keep(t) ==
    /\ Emit(t.conn, Evt("subscription_error", t.mint, "-", NoSnap))
    /\ UNCHANGED <<subs, rooms>>

\* the catch of lines 176-187: the mint leaves the set, the socket leaves
\* the room, subscription_error is emitted
subscribeToToken_catch(t) ==
    /\ subs' = [subs EXCEPT ![t.conn] = @ \ {t.mint}]
    /\ rooms' = [rooms EXCEPT ![t.mint] = @ \ {t.conn}]
    /\ Emit(t.conn, Evt("subscription_error", t.mint, "-", NoSnap))

\* lines 146-149: getTokenPrice has returned or thrown
subscribeToToken_priced(t) ==
    /\ At(t, "subscribe_priced")
    /\ IF t.err # "none"
       THEN /\ subscribeToToken_catch(t)
            /\ Replace(t, Ret(t))
       ELSE /\ Replace(t, Call([t EXCEPT !.data = t.snap, !.snap = NoSnap],
                               updateEntry, "subscribe_updated"))
            /\ UNCHANGED <<subs, rooms, lastEvt>>
    /\ UNCHANGED <<queueVars, rateVars, apiVars, res, faults, chain, cacheVars, storeVars, repeatables, chan, hub,
                   lastJobStatus, connState, registered, inbox, banReturned, clock>>

\* lines 149-152: updateTokenPrice has returned, the mint is enrolled
subscribeToToken_updated(t) ==
    /\ At(t, "subscribe_updated")
    /\ Replace(t, Call([t EXCEPT !.caught = "none", !.flag = banReturned[t.mint]],
                       enrolEntry, "subscribe_enrolled"))
    /\ UNCHANGED <<queueVars, rateVars, apiVars, res, faults, chain, cacheVars, storeVars, repeatables, chan, hub,
                   lastJobStatus, sockVars, banReturned, clock>>

\* lines 152-174: addTokenForTracking has returned or thrown
subscribeToToken_enrolled(t) ==
    /\ At(t, "subscribe_enrolled")
    /\ IF t.err # "none"
       THEN subscribeToToken_catch(t)
       ELSE /\ SubscriptionSuccess(t, t.data)
            /\ UNCHANGED <<subs, rooms>>
    /\ Replace(t, Ret(t))
    /\ UNCHANGED <<queueVars, rateVars, apiVars, res, faults, chain, cacheVars, storeVars, repeatables, chan, hub,
                   lastJobStatus, connState, registered, inbox,
                   banReturned, clock>>

\* a Set.delete that empties the set
remaining_none(S, m) == {}

\* line 214: subscriptions.delete(tokenMint)
remaining(S, m) == S \ {m}

\* an unsubscribe that cancels the job of a mint when its last subscriber
\* leaves
unsubscribeFromToken_cancel(c, m) ==
    /\ connState[c] = "open"
    /\ c \in registered
    /\ m \in subs[c]
    /\ subs' = [subs EXCEPT ![c] = remaining(@, m)]
    /\ rooms' = [rooms EXCEPT ![m] = @ \ {c}]
    /\ Emit(c, EvtTotal("unsubscription_success", m, Cardinality(subs'[c])))
    /\ repeatables' = IF rooms'[m] = {} THEN {r \in repeatables : r.name # jobId(m)}
                      ELSE repeatables
    /\ UNCHANGED <<queueVars, rateVars, apiVars, res, faults, chain, cacheVars, storeVars, chan, hub,
                   lastJobStatus, connState, registered, inbox, banReturned,
                   tasks, clock>>

\* unsubscribeFromToken lines 199-229; totalSubscriptions is the size of the
\* set after the delete
unsubscribeFromToken(c, m) ==
    /\ connState[c] = "open"
    /\ IF c \notin registered
       THEN /\ Emit(c, Evt("error", "-", "-", NoSnap))
            /\ UNCHANGED <<subs, rooms>>
       ELSE IF m \notin subs[c]
       THEN /\ Emit(c, Evt("unsubscription_status", m, "not_subscribed", NoSnap))
            /\ UNCHANGED <<subs, rooms>>
       ELSE /\ subs' = [subs EXCEPT ![c] = remaining(@, m)]
            /\ rooms' = [rooms EXCEPT ![m] = @ \ {c}]
            /\ Emit(c, EvtTotal("unsubscription_success", m, Cardinality(subs'[c])))
    /\ UNCHANGED <<queueVars, rateVars, apiVars, res, faults, chain, cacheVars, storeVars, repeatables, chan, hub,
                   lastJobStatus, connState, registered, inbox, banReturned,
                   tasks, clock>>

\* handleDisconnection lines 240-252; the transport takes a closed socket
\* out of every room
handleDisconnection(c) ==
    /\ connState[c] = "open"
    /\ connState' = [connState EXCEPT ![c] = "closed"]
    /\ rooms' = [m \in AllMints |-> rooms[m] \ {c}]
    /\ registered' = registered \ {c}
    /\ subs' = [subs EXCEPT ![c] = {}]
    /\ UNCHANGED <<queueVars, rateVars, apiVars, res, faults, chain, cacheVars, storeVars, repeatables, chan, hub,
                   lastJobStatus, inbox, lastEvt, banReturned, tasks, clock>>

\* setupNamespace lines 31-54: a connection with the query parameter token;
\* subscribeToToken is awaited before the disconnect listener of line 56 is
\* registered
connection_legacy(c, m) ==
    /\ connState[c] = "new"
    /\ connState' = [connState EXCEPT ![c] = "open"]
    /\ registered' = registered \cup {c}
    /\ subs' = [subs EXCEPT ![c] = {}]
    /\ Emit(c, Evt("connected", "-", "-", NoSnap))
    /\ Spawn(NewTask("legacy", m, c,
                     validateEntry \o <<"subscribe_validated", "connection_listen">>))
    /\ UNCHANGED <<queueVars, rateVars, apiVars, res, faults, chain, cacheVars, storeVars, repeatables, chan, hub,
                   lastJobStatus, rooms, inbox, banReturned, clock>>

\* lines 56-59: the disconnect listener is registered
connection_listen(t) ==
    /\ At(t, "connection_listen")
    /\ Replace(t, Ret(t))
    /\ UNCHANGED <<queueVars, rateVars, apiVars, res, faults, chain, cacheVars, storeVars, repeatables, chan, hub,
                   lastJobStatus, sockVars, banReturned, clock>>

\* the disconnect listener of connection c is registered: no event is
\* handled between the return of subscribeToToken and line 56
listening(c) ==
    ~\E t \in Running :
        t.kind = "legacy" /\ t.conn = c /\ Head(t.pc) # "connection_listen"

\* the transport of a connection closes: the disconnect event fires once, for
\* the listeners registered by then, and the transport takes the socket out
\* of its rooms
disconnect(c) ==
    IF listening(c)
    THEN handleDisconnection(c)
    ELSE /\ connState[c] = "open"
         /\ connState' = [connState EXCEPT ![c] = "closed"]
         /\ rooms' = [m \in AllMints |-> rooms[m] \ {c}]
         /\ UNCHANGED <<queueVars, rateVars, apiVars, res, faults, chain, cacheVars, storeVars, repeatables, chan, hub,
                        lastJobStatus, registered, subs, inbox, lastEvt,
                        banReturned, tasks, clock>>

\* a hub that emits to every open socket
broadcastPriceUpdate_all(msg) == {c \in Conns : connState[c] = "open"}

\* broadcastPriceUpdate lines 272-281: the sockets the snapshot is emitted to
broadcastPriceUpdate(msg) == {c \in rooms[msg.mint] : connState[c] = "open"}

\* setupRedisSubscription lines 258-268: a message of price_update arrives
redisSubscriber_message ==
    /\ chan # <<>>
    /\ chan' = Tail(chan)
    /\ hub' = Append(hub, Head(chan))
    /\ inbox' = [c \in Conns |->
                    IF c \in broadcastPriceUpdate(Head(chan))
                    THEN Append(inbox[c], Head(chan))
                    ELSE inbox[c]]
    /\ UNCHANGED <<queueVars, rateVars, apiVars, res, faults, chain, cacheVars, storeVars, repeatables, lastJobStatus,
                   connState, registered, subs, rooms, lastEvt, banReturned,
                   tasks, clock>>

----------------------------------------------------------------------------
(* SocketService.handleSubscriptionMessage *)

\* inbound texts, each as the fields that message.split(',') yields
Messages ==
    { <<"M1", "subscribe">>, <<"M2", "subscribe">>, <<BAD_MINT, "subscribe">>,
      <<"M1", "unsubscribe">>, <<" M1", "SUBSCRIBE">>, <<"M2", "Unsubscribe">>,
      <<"M1">>, <<"", "subscribe">>, <<"M1", "bogus">>, <<"M2", "subscribe", "x">> }

\* String.prototype.trim on the fields that occur
trim(f) == IF f = " M1" THEN "M1" ELSE f

\* a comparison of the action that minds the case
toLowerCase_same(f) == f

\* String.prototype.toLowerCase on the fields that occur
toLowerCase(f) ==
    IF f = "SUBSCRIBE" THEN "subscribe"
    ELSE IF f = "Unsubscribe" THEN "unsubscribe"
    ELSE f

\* lines 71-76 and 85-88: error{message} to the sender
MessageError(c, why) ==
    /\ Emit(c, Evt("error", "-", why, NoSnap))
    /\ UNCHANGED <<queueVars, rateVars, apiVars, res, faults, chain, cacheVars, storeVars, repeatables, chan, hub,
                   lastJobStatus, connState, registered, subs, rooms, inbox,
                   banReturned, tasks, clock>>

\* lines 63-96: the first two fields are destructured and trimmed, further
\* fields are dropped, the action is compared in lower case
handleSubscriptionMessage(c, raw) ==
    LET tokenMint == trim(raw[1])
        action == IF Len(raw) >= 2 THEN trim(raw[2]) ELSE ""
    IN /\ connState[c] = "open"
       /\ IF tokenMint = "" \/ action = ""
          THEN MessageError(c, "format")
          ELSE IF toLowerCase(action) = "subscribe"
          THEN message_subscribe(c, tokenMint)
          ELSE IF toLowerCase(action) = "unsubscribe"
          THEN unsubscribeFromToken(c, tokenMint)
          ELSE MessageError(c, "action")

----------------------------------------------------------------------------
(* MetricService.getTopHolders and calculateConcentrationRatio *)

\* Array.prototype.slice(0, end): a negative end counts from the back
slice(s, end) ==
    LET e == IF end < 0 THEN (IF Len(s) + end < 0 THEN 0 ELSE Len(s) + end)
             ELSE IF end > Len(s) THEN Len(s) ELSE end
    IN SubSeq(s, 1, e)

\* lines 206-210: the share of the supply in percent, 0 without a supply
percentage(balance, totalSupply) ==
    IF totalSupply > 0 THEN (balance * 100) \div totalSupply ELSE 0

\* lines 204-217: the HolderBalance list of the first limit accounts
holdersOf(accs, totalSupply, limit) ==
    LET top == slice(accs, limit)
    IN [i \in 1..Len(top) |->
          [balance |-> top[i], percentage |-> percentage(top[i], totalSupply)]]

holdersEntry == <<"validate_get", "holders_validated">>

\* lines 162-167: an invalid verdict is thrown
getTopHolders_validated(t) ==
    /\ At(t, "holders_validated")
    /\ IF ~isValid(t.verdict)
       THEN Replace(t, Ret([t EXCEPT !.verdict = "none", !.hit = FALSE, !.err = "invalid"]))
       ELSE Replace(t, Goto([t EXCEPT !.verdict = "none", !.hit = FALSE], "holders_get"))
    /\ UNCHANGED <<queueVars, rateVars, apiVars, res, faults, chain, cacheVars, storeVars, repeatables,
                   chan, hub, lastJobStatus, sockVars, banReturned, clock>>

\* lines 169-174: the cached list is returned; a rejected redis.get is thrown
getTopHolders_get(t) ==
    /\ At(t, "holders_get")
    /\ \E o \in redisGet("read") :
          IF o = "rejects"
          THEN Replace(t, Ret([t EXCEPT !.err = "redis"]))
          ELSE IF topCache[t.arg].set
          THEN Replace(t, Ret([t EXCEPT !.list = topCache[t.arg].list]))
          ELSE Replace(t, Goto(t, "holders_fetch"))
    /\ UNCHANGED <<queueVars, rateVars, apiVars, res, faults, chain, cacheVars, storeVars, repeatables,
                   chan, hub, lastJobStatus, sockVars, banReturned, clock>>

\* what the fetch of getTokenLargestAccounts resolves to
fetchLargestAccounts == {"ok"} \cup (IF "rpc" \in faults THEN {"failed"} ELSE {})

\* lines 176-226: the accounts are fetched, cut to the limit, given their
\* shares and cached for five minutes; a failure yields the empty list
getTopHolders_fetch(t) ==
    /\ At(t, "holders_fetch")
    /\ \E o \in fetchLargestAccounts :
          IF o = "failed"
          THEN /\ Replace(t, Ret([t EXCEPT !.list = <<>>]))
               /\ UNCHANGED topCache
          ELSE LET holders == holdersOf(accounts, supply, t.arg)
               IN /\ topCache' = [topCache EXCEPT ![t.arg] = Cached(holders)]
                  /\ Replace(t, Ret([t EXCEPT !.list = holders]))
    /\ UNCHANGED <<rateVars, queueVars, accounts, supply, rugCache, res, faults, chain, cacheVars,
                   storeVars, repeatables, chan, hub, lastJobStatus, sockVars,
                   banReturned, clock>>

\* the top_holders keys expire after 300 seconds
TopHoldersExpire ==
    /\ \E l \in LimitValues : topCache[l].set
    /\ topCache' = [l \in LimitValues |-> NotCached]
    /\ UNCHANGED <<rateVars, queueVars, accounts, supply, rugCache, res, faults, chain, cacheVars,
                   storeVars, repeatables, chan, hub, lastJobStatus, sockVars,
                   banReturned, tasks, clock>>

RECURSIVE reduce(_)
\* topHolders.reduce((sum, holder) => sum + holder.percentage, 0)
reduce(holders) ==
    IF holders = <<>> THEN 0 ELSE Head(holders).percentage + reduce(Tail(holders))

\* a minimum that is its first argument
Math_min_first(a, b) == a

Math_min(a, b) == IF a < b THEN a ELSE b

\* lines 229-232: calculateConcentrationRatio asks for the top ten holders
calculateConcentrationRatio(m) ==
    /\ tasks = EmptyBag
    /\ Spawn([NewTask("ratio", m, "-", holdersEntry \o <<"ratio_done">>)
                 EXCEPT !.arg = TOP_HOLDERS])
    /\ UNCHANGED <<queueVars, rateVars, apiVars, res, faults, chain, cacheVars, storeVars, repeatables,
                   chan, hub, lastJobStatus, sockVars, banReturned, clock>>

\* lines 234-247: the shares are summed and capped; 0 when the call threw
calculateConcentrationRatio_done(t) ==
    /\ At(t, "ratio_done")
    /\ res' = IF t.err # "none"
              THEN Res("ratio", t.mint, 0, 0, "caught", <<>>)
              ELSE Res("ratio", t.mint, Math_min(reduce(t.list), RATIO_CAP), 0, "-",
                       t.list)
    /\ Replace(t, Ret(t))
    /\ UNCHANGED <<queueVars, rateVars, apiVars, faults, chain, cacheVars, storeVars, repeatables,
                   chan, hub, lastJobStatus, sockVars, banReturned, clock>>

----------------------------------------------------------------------------
(* tokenController.getTokenHolders *)

\* parseInt(req.query.limit) of the texts that occur; nan stands for NaN
parseInt(text) ==
    IF text = "-2" THEN [nan |-> FALSE, n |-> 0 - 2]
    ELSE IF text = "0" THEN [nan |-> FALSE, n |-> 0]
    ELSE IF text = "3" THEN [nan |-> FALSE, n |-> 3]
    ELSE IF text = "100" THEN [nan |-> FALSE, n |-> 100]
    ELSE IF text = "101" THEN [nan |-> FALSE, n |-> 101]
    ELSE [nan |-> TRUE, n |-> 0]

\* line 90: parseInt(...) || 10; NaN and 0 are falsy
limitOf(text) ==
    IF parseInt(text).nan \/ parseInt(text).n = 0 THEN 10 ELSE parseInt(text).n

\* lines 90-99: a limit above 100 is answered 400, any other is passed on
getTokenHolders(m, text) ==
    /\ tasks = EmptyBag
    /\ IF limitOf(text) > HOLDERS_MAX_LIMIT
       THEN /\ res' = Res("holders", m, limitOf(text), 400, "error", <<>>)
            /\ UNCHANGED tasks
       ELSE /\ Spawn([NewTask("holders", m, "-", holdersEntry \o <<"holders_done">>)
                        EXCEPT !.arg = limitOf(text)])
            /\ res' = NoRes
    /\ UNCHANGED <<queueVars, rateVars, apiVars, faults, chain, cacheVars, storeVars, repeatables,
                   chan, hub, lastJobStatus, sockVars, banReturned, clock>>

\* lines 99-110: the list is answered, a thrown error is answered 400
getTokenHolders_done(t) ==
    /\ At(t, "holders_done")
    /\ res' = IF t.err # "none"
              THEN Res("holders", t.mint, t.arg, 400, "error", <<>>)
              ELSE Res("holders", t.mint, t.arg, 200, "data", t.list)
    /\ Replace(t, Ret(t))
    /\ UNCHANGED <<queueVars, rateVars, apiVars, faults, chain, cacheVars, storeVars, repeatables,
                   chan, hub, lastJobStatus, sockVars, banReturned, clock>>

----------------------------------------------------------------------------
(* RugCheckService.getTokenRugCheck *)

\* what the GET of /tokens/<m>/report can resolve to: a report, a response
\* without data, or a rejection with an HTTP status or without a response
Upstream == {"report", "empty", "404", "429", "500", "network"}

\* a handler that answers null to every rejection
onRejected_null(o) == "null"

\* the catch of lines 231-252: what getTokenRugCheck does with a rejection
onRejected(o) == IF o = "429" THEN "throws" ELSE "null"

\* line 162: the call starts
getTokenRugCheck(m) ==
    /\ tasks = EmptyBag
    /\ Spawn(NewTask("rugcheck", m, "-", <<"rugcheck_get">>))
    /\ res' = NoRes
    /\ UNCHANGED <<queueVars, rateVars, apiVars, faults, chain, cacheVars, storeVars, repeatables,
                   chan, hub, lastJobStatus, sockVars, banReturned, clock>>

\* lines 165-180: a cached report younger than CACHE_TTL is returned; an
\* error of the cache store is logged and the report is fetched
getTokenRugCheck_get(t) ==
    /\ At(t, "rugcheck_get")
    /\ \E o \in redisGet(rugCache[t.mint].report) :
          IF o = "report" /\ clock - rugCache[t.mint].at < CACHE_TTL
          THEN /\ res' = Res("rugcheck", t.mint, rugCache[t.mint].at, 0, "report",
                             <<"cache">>)
               /\ Replace(t, Ret(t))
          ELSE /\ res' = res
               /\ Replace(t, Goto(t, "rugcheck_fetch"))
    /\ UNCHANGED <<queueVars, rateVars, apiVars, faults, chain, cacheVars, storeVars, repeatables,
                   chan, hub, lastJobStatus, sockVars, banReturned, clock>>

\* redis.setex of the report: done, or rejected and logged
setexReport(m) ==
    {[rugCache EXCEPT ![m] = [report |-> "report", at |-> clock]]}
        \cup (IF "redis" \in faults THEN {rugCache} ELSE {})

\* lines 182-253: the report is fetched, cached and returned; no data and
\* 404 give null, 429 is thrown, any other failure gives null
getTokenRugCheck_fetch(t) ==
    /\ At(t, "rugcheck_fetch")
    /\ \E o \in Upstream :
          IF o = "report"
          THEN /\ rugCache' \in setexReport(t.mint)
               /\ res' = Res("rugcheck", t.mint, clock, 0, "report", <<o>>)
          ELSE /\ rugCache' = rugCache
               /\ res' = Res("rugcheck", t.mint, clock, 0,
                             IF o = "empty" THEN "null" ELSE onRejected(o), <<o>>)
    /\ Replace(t, Ret(t))
    /\ UNCHANGED <<rateVars, queueVars, accounts, supply, topCache, faults, chain, cacheVars, storeVars,
                   repeatables, chan, hub, lastJobStatus, sockVars, banReturned,
                   clock>>

\* time passes: one second less than the cache keeps a report, or as long
Elapse ==
    /\ \E d \in {CACHE_TTL - 1, CACHE_TTL} :
          /\ clock + d <= MaxAge
          /\ clock' = clock + d
    /\ UNCHANGED <<queueVars, rateVars, apiVars, res, faults, chain, cacheVars, storeVars, repeatables,
                   chan, hub, lastJobStatus, sockVars, banReturned, tasks>>

----------------------------------------------------------------------------
(* healthController.healthCheck *)

\* prisma.$queryRaw`SELECT 1` and redis.ping(): what each resolves to
queryRaw == {"ok"} \cup (IF "db" \in faults THEN {"failed"} ELSE {})
ping == {"ok"} \cup (IF "redis" \in faults THEN {"failed"} ELSE {})

\* a status that looks at the persistent store only
healthStatus_store(db, rd) == IF db = "ok" THEN 200 ELSE 503

\* lines 32-48: 200 when both awaits resolved, 503 from the catch
healthStatus(db, rd) == IF db = "ok" /\ rd = "ok" THEN 200 ELSE 503

\* lines 31-49: the store is probed, then the cache store unless the first
\* probe threw; the answer carries the timestamp and what the probes gave
healthCheck ==
    /\ \E db \in queryRaw, p \in ping :
          LET rd == IF db = "ok" THEN p ELSE "skipped"
          IN res' = Res("health", "-", clock, healthStatus(db, rd),
                        IF healthStatus(db, rd) = 200 THEN "healthy" ELSE "unhealthy",
                        <<db, rd>>)
    /\ UNCHANGED <<queueVars, rateVars, apiVars, faults, chain, cacheVars, storeVars, repeatables,
                   chan, hub, lastJobStatus, sockVars, banReturned, tasks, clock>>

----------------------------------------------------------------------------
(* tokenController.getTokenHistory *)

\* values of the window query parameter: absent, the three of WindowSchema
\* and one that is none of them
WindowTexts == {"absent", "1m", "5m", "1h", "2h"}

\* MetricsQuerySchema.parse: the window, "1h" when absent, or a ZodError
parseWindow(w) ==
    IF w = "absent" THEN "1h" ELSE IF w \in {"1m", "5m", "1h"} THEN w ELSE "ZodError"

\* lines 127-139: the seconds the window reaches back
windowSeconds(w) ==
    IF w = "1m" THEN WINDOW_1M ELSE IF w = "5m" THEN WINDOW_5M ELSE WINDOW_1H

\* a query that returns the rows in the order they are stored
orderBy_stored(rows) == rows

\* orderBy: { timestamp: 'asc' }
orderBy(rows) == SortSeq(rows, LAMBDA a, b : a.ts < b.ts)

\* take: n
take(rows, n) == SubSeq(rows, 1, IF Len(rows) < n THEN Len(rows) ELSE n)

\* prisma.priceHistory.findMany of lines 141-150
findMany(rows, startTime) ==
    take(orderBy(SelectSeq(rows, LAMBDA r : r.ts >= startTime)), HISTORY_TAKE)

\* lines 113-167: the answer carries the timestamps of the entries found
getTokenHistory(m, w) ==
    /\ res' = IF parseWindow(w) = "ZodError"
              THEN Res("history", m, 0, 400, "error", <<>>)
              ELSE LET found == findMany(history[m], clock - windowSeconds(parseWindow(w)))
                   IN Res("history", m, windowSeconds(parseWindow(w)), 200, "data",
                          [i \in 1..Len(found) |-> found[i].ts])
    /\ UNCHANGED <<queueVars, rateVars, apiVars, faults, chain, cacheVars, storeVars, repeatables,
                   chan, hub, lastJobStatus, sockVars, banReturned, tasks, clock>>

\* one period of the repeatable job of a mint: a second passes and
\* updateTokenPrice commits the row and the history entry of that second
pollTick(m) ==
    /\ clock < MaxNow
    /\ clock' = clock + 1
    /\ latest' = [latest EXCEPT ![m] = Snap(m, clock + 1)]
    /\ history' = [history EXCEPT ![m] = Append(@, Snap(m, clock + 1))]
    /\ res' = NoRes
    /\ UNCHANGED <<queueVars, rateVars, apiVars, faults, chain, cacheVars, commits, repeatables, chan,
                   hub, lastJobStatus, sockVars, banReturned, tasks>>

----------------------------------------------------------------------------
(* tokenController.getTokenMetrics *)

\* lines 59-64: a mint without a TokenPrice row is priced
getTokenMetrics(m) ==
    /\ latest[m] = NoSnap
    /\ Spawn(NewTask("metrics", m, "-", getPriceEntry \o <<"metrics_priced">>))
    /\ UNCHANGED <<queueVars, rateVars, apiVars, res, faults, chain, cacheVars, storeVars, repeatables, chan, hub,
                   lastJobStatus, sockVars, banReturned, clock>>

\* lines 64-67 and the catch of lines 74-78
getTokenMetrics_priced(t) ==
    /\ At(t, "metrics_priced")
    /\ IF t.err # "none"
       THEN Replace(t, Ret(t))
       ELSE Replace(t, Call([t EXCEPT !.snap = NoSnap], updateEntry, "metrics_updated"))
    /\ UNCHANGED <<queueVars, rateVars, apiVars, res, faults, chain, cacheVars, storeVars, repeatables, chan, hub,
                   lastJobStatus, sockVars, banReturned, clock>>

\* lines 70-73: updateTokenPrice has returned
getTokenMetrics_updated(t) ==
    /\ At(t, "metrics_updated")
    /\ Replace(t, Ret(t))
    /\ UNCHANGED <<queueVars, rateVars, apiVars, res, faults, chain, cacheVars, storeVars, repeatables, chan, hub,
                   lastJobStatus, sockVars, banReturned, clock>>

----------------------------------------------------------------------------
(* The environment *)

\* the chain changes its mind about a mint (the account is created or
\* closed, the supply is minted or burnt)
ChainChanges(m) ==
    /\ chain' = [chain EXCEPT ![m] = IF @ = "valid" THEN "invalid" ELSE "valid"]
    /\ UNCHANGED <<queueVars, rateVars, apiVars, res, faults, cacheVars, storeVars, repeatables, chan, hub,
                   lastJobStatus, sockVars, banReturned, tasks, clock>>

\* the 1 h TTL of token_validation:<m> elapses
ValidationExpires(m) ==
    /\ valCache[m] # "none"
    /\ valCache' = [valCache EXCEPT ![m] = "none"]
    /\ UNCHANGED <<queueVars, rateVars, apiVars, res, faults, chain, ban, storeVars, repeatables, chan, hub, lastJobStatus,
                   sockVars, banReturned, tasks, clock>>

\* the 24 h TTL of invalid_token:<m> elapses
BanExpires(m) ==
    /\ Banned(m)
    /\ ban' = [ban EXCEPT ![m] = 0]
    /\ banReturned' = [banReturned EXCEPT ![m] = FALSE]
    /\ UNCHANGED <<queueVars, rateVars, apiVars, res, faults, chain, valCache, storeVars, repeatables, chan, hub,
                   lastJobStatus, sockVars, tasks, clock>>

----------------------------------------------------------------------------
(* Specifications *)

\* a deployment whose store holds a row and a history entry for the mints of
\* rows, whose queue holds a repeatable job for the mints of jobs, and which
\* goes through the outages of f
StartExcept(jobs, f) ==
    /\ chain = [m \in AllMints |-> IF m = BAD_MINT THEN "invalid" ELSE "valid"]
    /\ valCache = [m \in AllMints |-> "none"]
    /\ ban = [m \in AllMints |-> 0]
    /\ repeatables = {RepeatKey(m, PRICE_POLL_INTERVAL) : m \in jobs}
    /\ chan = <<>>
    /\ hub = <<>>
    /\ commits = <<>>
    /\ lastJobStatus = [m \in AllMints |-> "none"]
    /\ connState = [c \in Conns |-> "new"]
    /\ registered = {}
    /\ subs = [c \in Conns |-> {}]
    /\ rooms = [m \in AllMints |-> {}]
    /\ inbox = [c \in Conns |-> <<>>]
    /\ lastEvt = [c \in Conns |-> NoEvt]
    /\ banReturned = [m \in AllMints |-> FALSE]
    /\ tasks = EmptyBag
    /\ faults = f
    /\ res = NoRes
    /\ topCache = [l \in LimitValues |-> NotCached]
    /\ rugCache = [m \in AllMints |-> NoReport]

Start(rows, jobs, f) ==
    /\ lastRequestTime = 0
    /\ requests = <<>>
    /\ pairs = <<>>
    /\ instances = {}
    /\ bullKeys = {}
    /\ accounts = <<>>
    /\ supply = 0
    /\ StartExcept(jobs, f)
    /\ latest = [m \in AllMints |-> IF m \in rows THEN Snap(m, 0) ELSE NoSnap]
    /\ history = [m \in AllMints |-> IF m \in rows THEN <<Snap(m, 0)>> ELSE <<>>]
    /\ clock = 0

\* the worker process starts on a store that tracked the mints before
Init == Start(Mints, {}, {"db"})

Validate ==
    \E t \in Running : validateTokenMint_get(t) \/ validateTokenMint_chain(t)

Update ==
    \E t \in Running :
        \/ getTokenPrice_validated(t)
        \/ updateTokenPrice_validated(t)
        \/ cleanupInvalidToken_keys(t)
        \/ updateTokenPrice_priced(t)
        \/ updateTokenPrice_publish(t)

Enrol ==
    \E t \in Running :
        \/ addTokenForTracking_validated(t)
        \/ addTokenForTracking_obliterate(t)
        \/ addTokenForTracking_add(t)

Remove ==
    \E t \in Running :
        \/ removeTokenFromTracking_ban(t)
        \/ removeTokenFromTracking_obliterate(t)
        \/ removeTokenFromTracking_history(t)
        \/ removeTokenFromTracking_latest(t)

Worker ==
    \/ \E m \in Tracked : worker_job(m)
    \/ \E t \in Running : worker_updated(t) \/ worker_removed(t)

Bootstrap ==
    \/ \E m \in Tracked : schedulePriceTrackingJobs(m)
    \/ \E t \in Running : schedulePriceTrackingJobs_enrol(t)

Chain == \E m \in Tracked : ChainChanges(m)

CacheExpiry == \E m \in Tracked : ValidationExpires(m)

BanExpiry == \E m \in Tracked : BanExpires(m)

\* the scheduler: enrolment, worker jobs, bans
NextSched ==
    \/ Validate \/ Update \/ Enrol \/ Remove \/ Worker \/ Bootstrap
    \/ Chain \/ CacheExpiry

SpecSched == Init /\ [][NextSched]_vars

\* a fresh deployment: nothing stored, nothing scheduled
InitFresh == Start({}, {}, {})

\* a deployment whose mints are scheduled and not priced yet
InitRunning == Start({}, Tracked, {"db"})

\* a restarted deployment whose chain RPC and cache store suffer outages
\* while every mint stays valid on chain
InitOutages == Start(Mints, {}, {"rpc", "redis"})

Subscribe ==
    \E t \in Running :
        \/ subscribeToToken_validated(t)
        \/ subscribeToToken_current(t)
        \/ subscribeToToken_priced(t)
        \/ subscribeToToken_updated(t)
        \/ subscribeToToken_enrolled(t)

Socket ==
    \/ \E c \in Conns : connection(c) \/ handleDisconnection(c)
    \/ \E c \in Conns, m \in Tracked : message_subscribe(c, m) \/ unsubscribeFromToken(c, m)

\* one client that connects and subscribes
Client == connection("c1") \/ \E m \in Tracked : message_subscribe("c1", m)

Metrics ==
    \/ \E m \in Tracked : getTokenMetrics(m)
    \/ \E t \in Running : getTokenMetrics_priced(t) \/ getTokenMetrics_updated(t)

\* fan-out: clients subscribe, unsubscribe and leave while updates are published
NextHub ==
    \/ Validate \/ Update \/ Enrol \/ Socket \/ Subscribe
    \/ redisSubscriber_message

SpecHub == InitFresh /\ [][NextHub]_vars

\* a store with no history, or with two entries whose transactions committed
\* in the order opposite to their timestamps
InitHistory ==
    /\ StartExcept(Tracked, {})
    /\ lastRequestTime = 0
    /\ requests = <<>>
    /\ pairs = <<>>
    /\ instances = {}
    /\ bullKeys = {}
    /\ accounts = <<>>
    /\ supply = 0
    /\ \E late \in BOOLEAN :
          /\ clock = IF late THEN 1 ELSE 0
          /\ history = [m \in AllMints |->
                          IF late /\ m \in Tracked
                          THEN <<Snap(m, 1), Snap(m, 0)>> ELSE <<>>]
          /\ latest = [m \in AllMints |->
                         IF late /\ m \in Tracked THEN Snap(m, 1) ELSE NoSnap]

\* the history of a polled mint is queried while it grows
NextHistory ==
    \/ \E m \in Tracked : pollTick(m)
    \/ \E m \in Tracked, w \in WindowTexts : getTokenHistory(m, w)

SpecHistory == InitHistory /\ [][NextHistory]_vars

\* a fresh deployment whose cache store suffers outages
InitRugCheck == Start({}, {}, {"redis"})

\* risk reports of a mint are asked for as time passes
NextRugCheck ==
    \/ \E m \in Tracked : getTokenRugCheck(m)
    \/ \E t \in Running : getTokenRugCheck_get(t) \/ getTokenRugCheck_fetch(t)
    \/ Elapse

SpecRugCheck == InitRugCheck /\ [][NextRugCheck]_vars

\* a restart: the stores hold what an earlier run left behind, which is any
\* set of rows, of repeatable jobs and of ban keys, and the chain has its
\* verdict on every mint
InitBoot ==
    \E rows, jobs, banned, bad \in SUBSET Mints :
        /\ lastRequestTime = 0
        /\ requests = <<>>
        /\ pairs = <<>>
        /\ instances = {}
        /\ bullKeys = {}
        /\ accounts = <<>>
        /\ supply = 0
        /\ chain = [m \in AllMints |->
                      IF m = BAD_MINT \/ m \in bad THEN "invalid" ELSE "valid"]
        /\ valCache = [m \in AllMints |-> "none"]
        /\ ban = [m \in AllMints |-> IF m \in banned THEN BAN_TTL ELSE 0]
        /\ repeatables = {RepeatKey(m, PRICE_POLL_INTERVAL) : m \in jobs}
        /\ chan = <<>>
        /\ hub = <<>>
        /\ commits = <<>>
        /\ lastJobStatus = [m \in AllMints |-> "none"]
        /\ connState = [c \in Conns |-> "new"]
        /\ registered = {}
        /\ subs = [c \in Conns |-> {}]
        /\ rooms = [m \in AllMints |-> {}]
        /\ inbox = [c \in Conns |-> <<>>]
        /\ lastEvt = [c \in Conns |-> NoEvt]
        /\ banReturned = [m \in AllMints |-> FALSE]
        /\ tasks = EmptyBag
        /\ faults = {}
        /\ res = NoRes
        /\ topCache = [l \in LimitValues |-> NotCached]
        /\ rugCache = [m \in AllMints |-> NoReport]
        /\ latest = [m \in AllMints |-> IF m \in rows THEN Snap(m, 0) ELSE NoSnap]
        /\ history = [m \in AllMints |-> IF m \in rows THEN <<Snap(m, 0)>> ELSE <<>>]
        /\ clock = 0

Sweep ==
    \E t \in Running :
        \/ cleanupInvalidTokensFromDatabase_tokens(t)
        \/ cleanupInvalidTokensFromDatabase_next(t)
        \/ cleanupInvalidTokensFromDatabase_history(t)
        \/ cleanupInvalidTokensFromDatabase_latest(t)

Schedule ==
    \E t \in Running :
        \/ schedulePriceTrackingJobs_tokens(t)
        \/ schedulePriceTrackingJobs_filter(t)
        \/ schedulePriceTrackingJobs_next(t)

\* the worker process starts, and its periodic clean-up runs afterwards
NextBoot ==
    \/ startWorker \/ setInterval_cleanup
    \/ Sweep \/ Schedule \/ Validate \/ Enrol

SpecBoot == InitBoot /\ [][NextBoot]_vars

\* a queue that holds any of a repeatable job, job instances in some states
\* and internal keys, for the handled mint and for another one, and whose
\* calls can reject
InitObliterate ==
    /\ lastRequestTime = 0
    /\ requests = <<>>
    /\ pairs = <<>>
    /\ \E jobs \in SUBSET Mints :
          StartExcept(jobs, {"queue"})
    /\ instances \in SUBSET ({Instance(m, "waiting", 1) : m \in Mints}
                                \cup {Instance(m, "delayed", i) : m \in Tracked, i \in {1, 2}}
                                \cup {Instance(m, "failed", 1) : m \in Tracked})
    /\ bullKeys \in SUBSET Mints
    /\ accounts = <<>>
    /\ supply = 0
    /\ latest = [m \in AllMints |-> NoSnap]
    /\ history = [m \in AllMints |-> <<>>]
    /\ clock = 0

Obliterate ==
    \E t \in Running :
        \/ obliterateTokenJobs_repeatables(t)
        \/ obliterateTokenJobs_state(t)
        \/ obliterateTokenJobs_keys(t)

\* one call of obliterateTokenJobs on a queue whose calls can reject
NextObliterate ==
    \/ \E m \in Tracked : obliterateTokenJobs_call(m)
    \/ Obliterate

SpecObliterate == InitObliterate /\ [][NextObliterate]_vars

\* a queue that holds any of a repeatable job, a waiting instance and
\* internal keys for M1, for M2 and for a mint whose identifier extends that
\* of M1, over a store with the rows of M1 and M2; no call rejects
InitFrame ==
    /\ lastRequestTime = 0
    /\ requests = <<>>
    /\ pairs = <<>>
    /\ \E jobs \in SUBSET (Mints \cup {LONG_MINT}) :
          StartExcept(jobs, {})
    /\ instances \in SUBSET {Instance(m, "waiting", 1) : m \in Mints \cup {LONG_MINT}}
    /\ bullKeys \in SUBSET (Mints \cup {LONG_MINT})
    /\ accounts = <<>>
    /\ supply = 0
    /\ latest = [m \in AllMints |-> IF m \in Mints THEN Snap(m, 0) ELSE NoSnap]
    /\ history = [m \in AllMints |-> IF m \in Mints THEN <<Snap(m, 0)>> ELSE <<>>]
    /\ clock = 0

\* obliterateTokenJobs and removeTokenFromTracking are called for M1
NextFrame ==
    \/ \E m \in Tracked : obliterateTokenJobs_call(m) \/ removeTokenFromTracking_call(m)
    \/ Obliterate
    \/ Remove

SpecFrame == InitFrame /\ [][NextFrame]_vars

\* the aggregator client one second after its construction
InitRate ==
    /\ StartExcept({}, {})
    /\ lastRequestTime = 0
    /\ requests = <<>>
    /\ pairs = <<>>
    /\ instances = {}
    /\ bullKeys = {}
    /\ accounts = <<>>
    /\ supply = 0
    /\ latest = [m \in AllMints |-> NoSnap]
    /\ history = [m \in AllMints |-> <<>>]
    /\ clock = 1000

Prices ==
    \E t \in Running :
        \/ rateLimit(t)
        \/ rateLimit_wake(t)
        \/ getBatchTokenPrices_fetch(t)
        \/ getBatchTokenPrices_response(t)
        \/ getBatchTokenPrices_sleep(t)
        \/ getSolPriceUsd_fetch(t)

\* callers ask for the prices of one or two mints and for the SOL price as
\* time passes
NextRate ==
    \/ \E batch \in {<<"M1">>, <<"M1", "M2">>} : getBatchTokenPrices(batch)
    \/ getSolPriceUsd
    \/ Prices
    \/ Pass

SpecRate == InitRate /\ [][NextRate]_vars

\* pairs an answer of the aggregator can hold for a mint
Pairs ==
    [dexId : {"raydium", "pumpswap", "launchlab", "fluxbeam"},
     pairAddress : {"a", "apump"},
     liquidity : {0, 600, 6000},
     volume : {0, 2000},
     quote : {SOL_MINT, "USDC"}]

\* an answer of the aggregator with up to two pairs of the mint
InitPairs ==
    /\ StartExcept({}, {})
    /\ lastRequestTime = 0
    /\ requests = <<>>
    /\ pairs \in {<<>>} \cup {<<p>> : p \in Pairs}
                       \cup {<<p, q>> : p \in Pairs, q \in Pairs}
    /\ instances = {}
    /\ bullKeys = {}
    /\ accounts = <<>>
    /\ supply = 0
    /\ latest = [m \in AllMints |-> NoSnap]
    /\ history = [m \in AllMints |-> <<>>]
    /\ clock = 0

NextPairs == \E m \in Tracked : processPairsResponse(m)

SpecPairs == InitPairs /\ [][NextPairs]_vars

\* a fresh deployment whose persistent store and cache store suffer outages
InitHealth == Start({}, {}, {"db", "redis"})

\* the health endpoint is asked while metrics requests price a mint
NextHealth ==
    \/ Validate \/ Update \/ Metrics \/ redisSubscriber_message
    \/ healthCheck

SpecHealth == InitHealth /\ [][NextHealth]_vars

\* a mint whose largest accounts have strictly decreasing balances, by ones
\* or by twos, against a supply of 100, 50 or none
InitHolders ==
    /\ StartExcept({}, {})
    /\ lastRequestTime = 0
    /\ requests = <<>>
    /\ pairs = <<>>
    /\ instances = {}
    /\ bullKeys = {}
    /\ latest = [m \in AllMints |-> NoSnap]
    /\ history = [m \in AllMints |-> <<>>]
    /\ clock = 0
    /\ \E k \in 0..MaxHolders, unit \in {1, 2} :
          accounts = [i \in 1..k |-> (k - i + 1) * unit]
    /\ supply \in {0, 50, 100}

Holders ==
    \/ \E m \in Tracked : calculateConcentrationRatio(m)
    \/ \E m \in Tracked, text \in LimitTexts : getTokenHolders(m, text)
    \/ \E t \in Running :
          \/ getTopHolders_validated(t)
          \/ getTopHolders_get(t)
          \/ getTopHolders_fetch(t)
          \/ calculateConcentrationRatio_done(t)
          \/ getTokenHolders_done(t)

NextHolders == Validate \/ Holders \/ TopHoldersExpire

SpecHolders == InitHolders /\ [][NextHolders]_vars

\* a fresh deployment whose price sources may yield nothing
InitQuotes == Start({}, {}, {"quotes"})

\* a client subscribes to an unpriced mint while the sources may fail
NextQuotes ==
    \/ Validate \/ Update \/ Enrol \/ Client \/ Subscribe
    \/ redisSubscriber_message

SpecQuotes == InitQuotes /\ [][NextQuotes]_vars

\* a deployment that has priced M2 only, with a cache store and a queue that
\* may reject calls
InitDiscover == Start({"M2"}, {}, {"redis", "queue"})

\* discovery: one client subscribes to a priced and to an unpriced mint and
\* unsubscribes while lookups and the queue may fail
NextDiscover ==
    \/ Validate \/ Update \/ Enrol \/ Subscribe
    \/ connection("c1")
    \/ (\E m \in Mints : message_subscribe("c1", m))
    \/ (\E m \in Tracked : unsubscribeFromToken("c1", m))

SpecDiscover == InitDiscover /\ [][NextDiscover]_vars

\* publication: updates from the worker, the subscribe path and the metrics
\* endpoint overlap
NextPublish ==
    \/ Validate \/ Update \/ Enrol \/ Worker \/ Metrics \/ Client \/ Subscribe
    \/ redisSubscriber_message

SpecPublish == InitRunning /\ [][NextPublish]_vars

\* purges: the worker and the metrics endpoint update while mints turn
\* invalid and are banned
NextPurge ==
    \/ Validate \/ Update \/ Enrol \/ Remove \/ Worker \/ Bootstrap \/ Metrics
    \/ redisSubscriber_message \/ Chain

SpecPurge == InitRunning /\ [][NextPurge]_vars

\* admission: one client subscribes and unsubscribes while verdicts change and
\* keys expire
NextAdmission ==
    \/ Validate \/ Update \/ Enrol \/ Client \/ Subscribe
    \/ (\E m \in Tracked : unsubscribeFromToken("c1", m))
    \/ Chain \/ CacheExpiry \/ BanExpiry

SpecAdmission == InitFresh /\ [][NextAdmission]_vars

\* outages: the scheduler while the chain RPC and the cache store fail
NextOutages ==
    \/ Validate \/ Update \/ Enrol \/ Remove \/ Worker \/ Bootstrap \/ CacheExpiry

SpecOutages == InitOutages /\ [][NextOutages]_vars

\* a deployment that tracks every mint and schedules the mints of Tracked
InitSocket == Start(Mints, Tracked, {})

\* one connection sends every text, the other subscribes to one mint
Inbound ==
    \/ \E raw \in Messages : handleSubscriptionMessage("c1", raw)
    \/ handleSubscriptionMessage("c2", <<"M1", "subscribe">>)

Connections == \E c \in Conns : connection(c) \/ handleDisconnection(c)

\* the socket protocol: connections send texts and leave
NextSocket ==
    \/ Validate \/ Subscribe \/ Connections \/ Inbound

SpecSocket == InitSocket /\ [][NextSocket]_vars

Legacy ==
    \/ \E c \in Conns, m \in Tracked : connection_legacy(c, m)
    \/ \E t \in Running : connection_listen(t)

\* connections with and without a connect-time token subscribe and close
NextLegacy ==
    \/ Validate \/ Subscribe \/ Legacy
    \/ (\E c \in Conns : connection(c) \/ disconnect(c))
    \/ (\E c \in Conns, m \in Tracked : message_subscribe(c, m))

SpecLegacy == InitSocket /\ [][NextLegacy]_vars

\* the metrics endpoint: queries for untracked mints on a fresh deployment
\* while verdicts change
NextMetrics ==
    \/ Validate \/ Update \/ Metrics \/ redisSubscriber_message \/ Chain \/ CacheExpiry

SpecMetrics == InitFresh /\ [][NextMetrics]_vars

ValidateTwice ==
    \/ \E m \in AllMints : validateTwice(m)
    \/ \E t \in Running : validateTwice_second(t) \/ validateTwice_done(t)

\* validation: mints are validated twice in a row while the chain changes
NextValidate ==
    \/ Validate \/ ValidateTwice \/ (\E m \in Mints : ChainChanges(m))

SpecValidate == InitFresh /\ [][NextValidate]_vars

----------------------------------------------------------------------------
(* Properties *)

\* a step of task t
Steps(t) == t \in Running /\ CopiesIn(t, tasks') < CopiesIn(t, tasks)

\* the last step of task t: the call it was started for returns
Ends(t) == Steps(t) /\ BagCardinality(tasks') < BagCardinality(tasks)

JobsOf(q, m) == {r \in q : r.name = jobId(m)}

\* position of snapshot s in the order of commits, 0 when it was never committed
CommitIdx(s) ==
    IF s \in Committed THEN CHOOSE i \in 1..Len(commits) : commits[i].snap = s ELSE 0

\* C1: whenever no enrolment, removal or job is in progress, the queue holds
\* at most one repeatable job price-<m> for every mint m, whatever the
\* interleaving of addTokenForTracking and removeTokenFromTracking was
C1_AtMostOneJob ==
    tasks = EmptyBag => \A m \in AllMints : Cardinality(JobsOf(repeatables, m)) <= 1

\* quiescence with one job of M1, after a removal of M1 returned and an
\* enrolment that overlapped it added the job
C1_Witness ==
    /\ tasks = EmptyBag
    /\ Cardinality(JobsOf(repeatables, "M1")) = 1
    /\ banReturned["M1"]

\* C2: a worker tick in which the validation of its mint failed ends with the
\* TokenPrice row and the history of the mint deleted, the ban key set for
\* 24 h and no repeatable job of the mint left
C2_InvalidTickPurges ==
    [][\A t \in Running :
          (t.kind = "job" /\ Ends(t) /\ t.caught = "invalid")
             => /\ latest'[t.mint] = NoSnap
                /\ history'[t.mint] = <<>>
                /\ ban'[t.mint] = BAN_TTL
                /\ JobsOf(repeatables', t.mint) = {}]_vars

\* C3: an addTokenForTracking that started after removeTokenFromTracking of
\* its mint returned, while the ban key is set, changes no repeatable job
C3_NoJobWhileBanned ==
    [][\A t \in Running :
          (t.flag /\ Steps(t) /\ Banned(t.mint)) => repeatables' = repeatables]_vars

\* such an enrolment holds a valid verdict and is about to read the ban key
C3_Witness ==
    \E t \in Running :
        /\ t.flag
        /\ Head(t.pc) = "enrol_validated"
        /\ isValid(t.verdict)
        /\ Banned(t.mint)

\* C4: while the ban key of a mint is set, a subscribe for the mint (from a
\* connection that is not subscribed to it) is answered with
\* subscription_error INVALID_TOKEN_MINT and the mint is not added to the
\* subscriptions of the connection
C4_BannedSubscribeRefused ==
    [][\A t \in Running :
          (/\ At(t, "subscribe_validated")
           /\ Steps(t)
           /\ Banned(t.mint)
           /\ t.mint \notin subs[t.conn])
             => /\ lastEvt'[t.conn] =
                      Evt("subscription_error", t.mint, "INVALID_TOKEN_MINT", NoSnap)
                /\ subs' = subs]_vars

\* C5: when the hub receives a price_update, the TokenPrice row of the mint
\* holds the payload of the message and the history of the mint holds an
\* entry with its fields
C5_RowAtDelivery ==
    [][hub' # hub =>
          LET msg == Head(chan) IN
          /\ latest[msg.mint] = msg
          /\ msg \in Range(history[msg.mint])]_vars

\* C5, as the code has it: every price_update the hub receives was committed,
\* row and history entry, before it was published; at delivery the row still
\* holds it unless a later commit replaced it or a purge deleted it, and the
\* history still holds it unless a purge deleted it
C5_CommittedBeforeDelivery ==
    [][hub' # hub =>
          LET msg == Head(chan)
              m == msg.mint
          IN /\ msg \in Committed
             /\ \/ latest[m] \in {msg, NoSnap}
                \/ CommitIdx(latest[m]) > CommitIdx(msg)
             /\ \/ msg \in Range(history[m])
                \/ \A e \in Range(history[m]) : CommitIdx(e) > CommitIdx(msg)]_vars

\* a committed snapshot waits for delivery while a purge has deleted the row
\* and the history of its mint
C5_Witness ==
    /\ chan # <<>>
    /\ Head(chan) \in Committed
    /\ latest[Head(chan).mint] = NoSnap
    /\ history[Head(chan).mint] = <<>>

C7_FanOut ==
    [][hub' # hub =>
          \A c \in Conns :
              inbox'[c] = IF Head(chan).mint \in subs[c]
                          THEN Append(inbox[c], Head(chan))
                          ELSE inbox[c]]_vars

\* a snapshot was delivered to a subscriber while another open connection,
\* subscribed to nothing, got none
C7_Witness ==
    /\ hub # <<>>
    /\ \E c, d \in Conns :
          /\ c # d
          /\ inbox[c] = hub
          /\ connState[d] = "open"
          /\ subs[d] = {}
          /\ inbox[d] = <<>>

\* C8: the TokenPrice row of a mint is replaced exactly when an entry is
\* appended to its history, and the entry is the new row
C8_RowAndHistoryTogether ==
    [][\A m \in AllMints :
          /\ (latest'[m] # latest[m] /\ latest'[m] # NoSnap)
                => history'[m] = Append(history[m], latest'[m])
          /\ Len(history'[m]) > Len(history[m])
                => /\ history'[m] = Append(history[m], latest'[m])
                   /\ latest'[m] # latest[m]]_vars

\* one update was written, row and entry, and the transaction of another
\* was rejected
C8_Witness ==
    /\ Len(commits) >= 1
    /\ \E t \in Running : t.caught = "persist"

\* C9: while every mint stays valid on chain, outages of the chain RPC and of
\* the cache store never set a ban key, never delete a TokenPrice row or a
\* history entry, and never start a removal from tracking
C9_OutagesPurgeNothing ==
    [][/\ \A m \in AllMints :
             /\ ban[m] = 0 => ban'[m] = 0
             /\ latest[m] # NoSnap => latest'[m] # NoSnap
             /\ Len(history'[m]) >= Len(history[m])
       /\ \A t \in Running : Steps(t) => Head(t.pc) # "remove_obliterate"]_vars

\* C10: a worker tick whose persistence transaction was rejected ends as a
\* failure: the job is counted as an error
C10_RejectedTickFails ==
    [][\A t \in Running :
          (t.kind = "job" /\ Ends(t) /\ t.caught = "persist")
             => lastJobStatus'[t.mint] = "error"]_vars

\* C11: a subscribe for a text that is no well-formed address is answered
\* with subscription_error INVALID_TOKEN_MINT and ends there; its validation
\* never reaches the chain, the subscriptions and rooms stay as they are, and
\* the mint gets no TokenPrice row, no history and no repeatable job
C11_BadFormatRefused ==
    [][/\ \A t \in Running :
             (t.mint = BAD_MINT /\ At(t, "subscribe_validated") /\ Steps(t))
                => /\ lastEvt'[t.conn] =
                         Evt("subscription_error", BAD_MINT, "INVALID_TOKEN_MINT", NoSnap)
                   /\ subs' = subs
                   /\ rooms' = rooms
                   /\ Ends(t)
       /\ \A t \in BagToSet(tasks') :
             t.mint = BAD_MINT => Head(t.pc) # "validate_chain"
       /\ latest'[BAD_MINT] = NoSnap
       /\ history'[BAD_MINT] = <<>>
       /\ JobsOf(repeatables', BAD_MINT) = {}]_vars

\* a connection that holds a subscription was refused the malformed mint
C11_Witness ==
    /\ lastEvt["c1"] = Evt("subscription_error", BAD_MINT, "INVALID_TOKEN_MINT", NoSnap)
    /\ subs["c1"] = {"M1"}
    /\ valCache[BAD_MINT] = "none"

\* C12: an addTokenForTracking that adds the job leaves exactly one
\* repeatable job price-<m> and the jobs of other mints as they were, also
\* when the job existed before the call; and the add is reached only from the
\* obliterate of the same call, which removes every job price-<m>
C12_EnrolIdempotent ==
    [][\A t \in Running :
          /\ (At(t, "enrol_add") /\ Steps(t))
                => /\ JobsOf(repeatables', t.mint) =
                         {RepeatKey(t.mint, PRICE_POLL_INTERVAL)}
                   /\ repeatables' \ JobsOf(repeatables', t.mint) =
                         repeatables \ JobsOf(repeatables, t.mint)
          /\ (At(t, "enrol_obliterate") /\ Steps(t))
                => /\ JobsOf(repeatables', t.mint) = {}
                   /\ Goto(t, "enrol_add") \in BagToSet(tasks')
          /\ (Steps(t) /\ ~At(t, "enrol_obliterate"))
                => CopiesIn(Goto(t, "enrol_add"), tasks')
                      <= CopiesIn(Goto(t, "enrol_add"), tasks)]_vars

\* a second enrolment of a mint is about to add the job while the job of the
\* first exists
C12_Witness ==
    \E t \in Running :
        /\ Head(t.pc) = "enrol_obliterate"
        /\ JobsOf(repeatables, t.mint) = {RepeatKey(t.mint, PRICE_POLL_INTERVAL)}
        /\ ~Banned(t.mint)

\* C13: the second of two validateTokenMint calls in a row, with no expiry
\* or deletion of the cached verdict between them, never contacts the chain
\* and returns the verdict of the first; a verdict cached as valid is
\* returned at the cache lookup
C13_ValidateTwice ==
    [][\A t \in Running :
          /\ (t.kind = "validate" /\ Steps(t) /\ Len(t.pc) = 2
                 /\ t.pc[2] = "validate_done")
                => /\ Head(t.pc) = "validate_get"
                   /\ Ret([t EXCEPT !.verdict = t.first,
                                       !.hit = validateAddressFormat(t.mint)
                                                  /\ t.mint # SOL_MINT])
                            \in BagToSet(tasks')
          /\ (At(t, "validate_get") /\ Steps(t) /\ valCache[t.mint] = "valid")
                => Ret([t EXCEPT !.verdict = "valid", !.hit = t.mint # SOL_MINT])
                      \in BagToSet(tasks')]_vars

\* the second call of a mint whose first call asked the chain is answered
\* from the cache after the chain changed its verdict
C13_Witness ==
    \E t \in Running :
        /\ t.pc = <<"validate_done">>
        /\ t.first = "valid"
        /\ t.verdict = "valid"
        /\ chain[t.mint] = "invalid"
        /\ valCache[t.mint] = "valid"

\* C14: when a metrics query for a valid mint without a TokenPrice row has
\* priced and stored the mint and returns, the mint has a TokenPrice row and
\* a repeatable job price-<m>
C14_MetricsEnrols ==
    [][\A t \in Running :
          (/\ t.kind = "metrics"
           /\ At(t, "metrics_updated")
           /\ Ends(t)
           /\ t.caught = "none"
           /\ latest[t.mint] # NoSnap)
             => JobsOf(repeatables', t.mint) # {}]_vars

\* C15: once the transport of a connection has closed and the handlers in
\* flight on it have finished, the connection is in no token room and the
\* registry holds no record and no subscription of it
C15_DisconnectCleans ==
    \A c \in Conns :
        (connState[c] = "closed" /\ ~\E t \in Running : t.conn = c)
           => /\ c \notin registered
              /\ subs[c] = {}
              /\ \A m \in AllMints : c \notin rooms[m]

\* C16: an unsubscribe and a disconnect leave the set of repeatable jobs as
\* it is, also when the last subscriber of a mint leaves
C16_DepartureKeepsJobs ==
    [][(\/ \E c \in Conns, m \in AllMints : unsubscribeFromToken(c, m)
        \/ \E c \in Conns : handleDisconnection(c))
          => repeatables' = repeatables]_vars

\* the last subscriber of a scheduled mint has unsubscribed and the job is
\* still there
C16_Witness ==
    /\ JobsOf(repeatables, "M1") # {}
    /\ rooms["M1"] = {}
    /\ \E c \in Conns : lastEvt[c] = EvtTotal("unsubscription_success", "M1", 0)

\* C17: a subscribe for a valid mint that is in the subscriptions of the
\* connection is answered with subscription_status already_subscribed and
\* ends there: subscriptions, rooms, rows, history, jobs and the channel stay
\* as they are and nothing is broadcast
C17_AlreadySubscribed ==
    [][\A t \in Running :
          (/\ At(t, "subscribe_validated")
           /\ Steps(t)
           /\ isValid(t.verdict)
           /\ t.conn \in registered
           /\ t.mint \in subs[t.conn])
             => /\ lastEvt'[t.conn] =
                      Evt("subscription_status", t.mint, "already_subscribed", NoSnap)
                /\ Ends(t)
                /\ UNCHANGED <<subs, rooms, latest, history, repeatables, chan, inbox,
                               valCache, clock>>]_vars

\* a connection with two subscriptions was told it is subscribed already
C17_Witness ==
    /\ lastEvt["c1"] = Evt("subscription_status", "M2", "already_subscribed", NoSnap)
    /\ subs["c1"] = {"M1", "M2"}
    /\ rooms["M2"] = {"c1"}

\* a field that reads subscribe or unsubscribe in some case
IsAction(f) == f \in {"subscribe", "SUBSCRIBE", "unsubscribe", "Unsubscribe"}

\* a text of the form "<mint>,<action>"
WellFormed(raw) == Len(raw) = 2 /\ raw[1] # "" /\ IsAction(raw[2])

\* a text whose first two fields are a mint and an action
Accepted(raw) == Len(raw) >= 2 /\ raw[1] # "" /\ IsAction(raw[2])

\* the effect of an error{message} answer: sent to the sender, and the
\* connections, subscriptions, rooms, jobs and handlers stay as they are
ErrorOnly(c) ==
    /\ lastEvt'[c].ev = "error"
    /\ \A d \in Conns \ {c} : lastEvt'[d] = lastEvt[d]
    /\ UNCHANGED <<connState, registered, subs, rooms, repeatables, tasks>>

\* C18: a text that is not of the form "<mint>,<action>" with action
\* subscribe or unsubscribe in any case is answered with error to the sender
\* only and changes no subscription, room or job
C18_MalformedRejected ==
    [][\A c \in Conns, raw \in Messages :
          (handleSubscriptionMessage(c, raw) /\ ~WellFormed(raw)) => ErrorOnly(c)]_vars

\* C18, as the code has it: the text is split at commas and only its first
\* two fields are read; when they are not a mint and an action in any case
\* the text is answered with error to the sender only and changes nothing,
\* and when they are, the text starts a subscription or is answered by the
\* unsubscription, whatever follows them
C18_UnreadableRejected ==
    [][\A c \in Conns, raw \in Messages :
          handleSubscriptionMessage(c, raw)
             => IF Accepted(raw)
                THEN tasks' # tasks \/ lastEvt'[c].code \notin {"format", "action"}
                ELSE ErrorOnly(c)]_vars

\* a connection that holds a subscription got an error for an unknown action
\* while another connection is subscribed
C18_Witness ==
    /\ lastEvt["c1"] = Evt("error", "-", "action", NoSnap)
    /\ subs["c1"] = {"M1"}
    /\ subs["c2"] = {"M1"}
    /\ connState["c1"] = "open"

\* C19: an unsubscribe of a subscribed mint removes the mint from the
\* subscriptions of the connection and the connection from the room of the
\* mint, answers unsubscription_success with the number of subscriptions left,
\* and leaves the other subscriptions, rooms and connections alone; no
\* broadcast of the mint goes to the connection, which can only get back into
\* the room by a subscribe of its own
C19_Unsubscribe ==
    /\ [][\A c \in Conns, m \in AllMints :
             (unsubscribeFromToken(c, m) /\ c \in registered /\ m \in subs[c])
                => /\ subs' = [subs EXCEPT ![c] = subs[c] \ {m}]
                   /\ rooms' = [rooms EXCEPT ![m] = rooms[m] \ {c}]
                   /\ c \notin rooms'[m]
                   /\ lastEvt' = [lastEvt EXCEPT ![c] =
                         EvtTotal("unsubscription_success", m, Cardinality(subs[c] \ {m}))]
                   /\ c \notin broadcastPriceUpdate(Snap(m, 0))']_vars
    /\ [][\A c \in Conns, m \in AllMints :
             (c \in rooms'[m] /\ c \notin rooms[m])
                => \E t \in Running :
                      /\ t.kind \in {"subscribe", "legacy"}
                      /\ t.conn = c
                      /\ t.mint = m
                      /\ At(t, "subscribe_validated")
                      /\ Steps(t)]_vars

\* a connection with two subscriptions unsubscribed from one of them: one is
\* left, and it is still in the room of the other
C19_Witness ==
    /\ lastEvt["c1"] = EvtTotal("unsubscription_success", "M2", 1)
    /\ subs["c1"] = {"M1"}
    /\ "c1" \in rooms["M1"]
    /\ "c1" \notin rooms["M2"]
    /\ subs["c2"] = {"M1"}

\* the snapshots of a mint other than the native mint that carry price 0
Unpriced(S) == {s \in S : s # NoSnap /\ s.mint # SOL_MINT /\ s.price = 0}

\* C20: no snapshot with price 0 of a mint other than the native mint is
\* written to the TokenPrice row or the history, published on price_update,
\* broadcast or emitted to a subscriber
C20_NoZeroPrice ==
    /\ Unpriced({latest[m] : m \in AllMints}) = {}
    /\ \A m \in AllMints : Unpriced(Range(history[m])) = {}
    /\ Unpriced(Range(chan) \cup Range(hub)) = {}
    /\ \A c \in Conns : Unpriced(Range(inbox[c]) \cup {lastEvt[c].snap}) = {}

\* the timestamps of the history entries of mint m at or after time from
InWindow(m, from) == {history[m][i].ts : i \in 1..Len(history[m])} \cap (from..clock)

C21_Witness300 ==
    /\ res.op = "history"
    /\ res.arg = WINDOW_5M
    /\ clock = 300
    /\ res.data = [i \in 1..300 |-> i]

\* the share of the i-th largest account in percent
Share(i) == IF supply > 0 THEN (accounts[i] * 100) \div supply ELSE 0

RECURSIVE TopShare(_)
\* the sum of the shares of the k largest accounts
TopShare(k) == IF k <= 0 THEN 0 ELSE Share(k) + TopShare(k - 1)

\* C22: the concentration ratio is the sum of the shares of the ten largest
\* holders, or of all when there are fewer, and 100 when that sum is above
\* 100; the sum over the k largest holders does not grow when k shrinks
C22_ConcentrationRatio ==
    /\ res.op = "ratio" =>
          LET k == IF Len(accounts) < 10 THEN Len(accounts) ELSE 10
          IN /\ Len(res.data) = k
             /\ res.arg = IF TopShare(k) > 100 THEN 100 ELSE TopShare(k)
    /\ \A k \in 1..Len(accounts) : TopShare(k - 1) <= TopShare(k)

\* twelve accounts whose ten largest hold more than the whole supply: the
\* ratio is cut to ten holders and capped
C22_Witness ==
    /\ res.op = "ratio"
    /\ Len(accounts) = 12
    /\ Len(res.data) = 10
    /\ TopShare(10) > 100
    /\ res.arg = 100

\* the limit texts that are absent or a number from 1 to 100
LimitInRange == {"absent", "3", "100"}

\* C24: a holders request whose limit is absent or in 1..100 leads to a
\* holder query, any other limit is answered 400 without a query, and an
\* answer to limit n holds at most n holders
C24_LimitRange ==
    [][/\ \A m \in Tracked, text \in LimitTexts :
             getTokenHolders(m, text)
                => IF text \in LimitInRange
                   THEN tasks' # tasks
                   ELSE res'.status = 400 /\ tasks' = tasks
       /\ (res'.op = "holders" /\ res'.status = 200)
             => (res'.arg >= 1 /\ Len(res'.data) <= res'.arg)]_vars

\* C25: the health endpoint answers 200 healthy with a timestamp exactly
\* when the store probe and the cache ping both succeeded, and 503 unhealthy
\* with an error when one of them failed; nothing but the answer changes
C25_Health ==
    [][healthCheck =>
          /\ res'.op = "health"
          /\ res'.arg = clock
          /\ IF res'.data = <<"ok", "ok">>
             THEN res'.status = 200 /\ res'.body = "healthy"
             ELSE /\ res'.status = 503 /\ res'.body = "unhealthy"
                  /\ res'.data \in {<<"failed", "skipped">>, <<"ok", "failed">>}
          /\ UNCHANGED <<chain, valCache, ban, latest, history, repeatables, chan,
                         hub, commits, lastJobStatus, connState, registered, subs,
                         rooms, inbox, lastEvt, banReturned, tasks, faults, clock,
                         accounts, supply, topCache, rugCache>>]_vars

\* the store answered and the cache ping failed: 503 while a row is stored
C25_Witness ==
    /\ res.op = "health"
    /\ res.status = 503
    /\ res.data = <<"ok", "failed">>
    /\ latest["M1"] # NoSnap

\* C23: a risk report call whose upstream answers 404 returns null; one
\* whose upstream answers 429 throws, returns neither null nor a report and
\* leaves the cache alone; nothing else throws, and a report served from the
\* cache was fetched less than CACHE_TTL seconds ago without asking upstream
C23_RateLimitSurfaces ==
    [][\A t \in Running :
          (t.kind = "rugcheck" /\ Steps(t) /\ Ends(t)) =>
              /\ res'.op = "rugcheck"
              /\ res'.data = <<"404">> => res'.body = "null"
              /\ res'.data = <<"429">> <=> res'.body = "throws"
              /\ res'.data = <<"429">> => rugCache' = rugCache
              /\ res'.data = <<"cache">> =>
                    /\ At(t, "rugcheck_get")
                    /\ rugCache[t.mint].report = "report"
                    /\ clock - rugCache[t.mint].at < 300
                    /\ res'.body = "report"]_vars

\* the upstream limited the rate while the cache held a report that is too
\* old to be served: the call threw
C23_Witness ==
    /\ res.op = "rugcheck"
    /\ res.data = <<"429">>
    /\ res.body = "throws"
    /\ rugCache["M1"].report = "report"
    /\ clock - rugCache["M1"].at >= 300

\* C26: once the enrolments and removals of a mint have all returned, the
\* ban key of the mint is not set while a repeating job of the mint exists
\* (what a worker tick does with such a job is C28)
C26_NoJobOfBannedMint ==
    \A m \in AllMints : (tasks = EmptyBag /\ Banned(m)) => ~HasJob(m)

\* C27: the purge of a mint is run at most once for an invalid verdict that
\* is in the cache: a call that was handed the cached invalid verdict does
\* not run the purge after another call has run it and deleted the verdict
C27_PurgeOncePerVerdict ==
    [][\A t \in Running :
          (At(t, "update_validated") /\ Steps(t) /\ t.verdict = "invalid" /\ t.hit)
             => valCache[t.mint] = "invalid"]_vars


\* the steps of a worker tick that found the ban key of its mint set
Skipped(t) ==
    t.kind = "job" /\ t.pc # <<>> /\ t.pc[Len(t.pc)] = "worker_skipped" /\ Steps(t)

BootDone == \E t \in Running : t.kind = "start" /\ Ends(t)

\* C29: when startWorker has completed, every mint that has a TokenPrice
\* row, has no ban key and validates as valid has exactly one repeatable job,
\* and a mint with a ban key has no repeatable job, no TokenPrice row and no
\* history row
C29_Bootstrap ==
    [][BootDone
          => \A m \in Mints :
                /\ (latest'[m] # NoSnap /\ ban'[m] = 0 /\ valCache'[m] = "valid")
                      => Cardinality(JobsOf(repeatables', m)) = 1
                /\ ban'[m] > 0
                      => /\ JobsOf(repeatables', m) = {}
                         /\ latest'[m] = NoSnap
                         /\ history'[m] = <<>>]_vars


\* what is left of mint m in the queue after a call that logged the failures
\* of l: a part is left only if a lookup that the part needs has failed
Removed(m, l) ==
    /\ (\A f \in Range(l) : f.op \notin {"getRepeatableJobs", "removeRepeatable"})
          => JobsOf(repeatables, m) = {}
    /\ \A j \in instances :
          j.mint = m => \E f \in Range(l) :
                           f.op \in {"getJobs", "remove"} /\ f.state = j.state
    /\ (\A f \in Range(l) : f.op # "keys") => m \notin bullKeys

\* C30: obliterateTokenJobs returns without raising, and when one of its
\* internal lookups has failed, every removal that does not need this lookup
\* has been carried out
C30_ObliterateCompletes ==
    res.op = "obliterate"
       => /\ res.body = "returned"
          /\ Len(res.data) <= 1 => Removed(res.mint, res.data)


\* C31: a purge deletes the TokenPrice row and the history of a mint together:
\* in no state that another call can observe does a mint have one of the two
\* without the other
C31_PurgeAtomic ==
    \A m \in AllMints : (latest[m] = NoSnap) <=> (history[m] = <<>>)


\* C32: any two requests to the aggregator start at least 200 ms apart
C32_RequestsApart ==
    \A i, j \in 1..Len(requests) :
        i < j => requests[j] - requests[i] >= RATE_LIMIT_DELAY


\* C33: the pair selected from a non-empty list of pairs is never a
\* launch-like pair whose 24 h volume is not above 1000 or whose liquidity is
\* not above 5000
C33_NoThinLaunchPair ==
    (res.op = "selectBestPair" /\ pairs # <<>>)
       => \A i \in 1..Len(res.data) :
             isLaunchpad(res.data[i])
                => /\ res.data[i].volume > LAUNCHPAD_MIN_VOLUME
                   /\ res.data[i].liquidity > LAUNCHPAD_MIN_LIQUIDITY


\* the step of a subscribe that sends the initial price_update and
\* subscription_success
Succeeds(t) ==
    /\ Steps(t)
    /\ \/ At(t, "subscribe_current") /\ latest[t.mint] # NoSnap
       \/ At(t, "subscribe_enrolled") /\ t.err = "none"

\* C34: when a subscribe for a mint that is valid on chain and has no ban
\* key answers subscription_success, a repeatable job price-<m> exists
C34_SubscribedMintHasJob ==
    [][\A t \in Running :
          (Succeeds(t) /\ chain[t.mint] = "valid" /\ ~Banned(t.mint))
             => JobsOf(repeatables', t.mint) # {}]_vars

\* C35: the snapshot a subscribe sends directly to its connection is one
\* that a transaction of updateTokenPrice has committed as the row of the
\* mint (every row of a fresh deployment is written by such a transaction)
C35_DirectSnapshotWasRow ==
    [][\A t \in Running :
          Succeeds(t) => lastEvt'[t.conn].snap \in Committed]_vars

\* C36: when an open connection is sent subscription_success for a mint, the
\* mint is in the connection's subscription set, the connection is in the
\* room of the mint, and totalSubscriptions is the size of the set
C36_SuccessMeansSubscribed ==
    [][\A t \in Running :
          (Succeeds(t) /\ connState[t.conn] = "open")
             => /\ t.mint \in subs'[t.conn]
                /\ t.conn \in rooms'[t.mint]
                /\ lastEvt'[t.conn].total = Cardinality(subs'[t.conn])]_vars

\* C37: the initial snapshot that a subscribe sends directly to an open
\* connection is not older than any broadcast snapshot of the same mint the
\* connection has been sent before it
C37_InitialNotAfterNewer ==
    [][\A t \in Running :
          (Succeeds(t) /\ connState[t.conn] = "open")
             => \A i \in 1..Len(inbox[t.conn]) :
                   inbox[t.conn][i].mint = t.mint
                      => inbox[t.conn][i].ts <= lastEvt'[t.conn].snap.ts]_vars

\* the step of a subscribe whose price discovery or enrolment has thrown
\* after the mint was added to the set
DiscoverFails(t) ==
    /\ Steps(t)
    /\ t.err # "none"
    /\ At(t, "subscribe_priced") \/ At(t, "subscribe_enrolled")

\* C38: when price discovery or enrolment throws inside a subscribe, the
\* mint is taken out of the connection's set, the connection leaves the room
\* of the mint, subscription_error is the event emitted and the call ends
\* without subscription_success; every other subscription and room stays
C38_FailedDiscoveryUndone ==
    [][\A t \in Running :
          DiscoverFails(t)
             => /\ t.mint \notin subs'[t.conn]
                /\ t.conn \notin rooms'[t.mint]
                /\ lastEvt'[t.conn] = Evt("subscription_error", t.mint, "-", NoSnap)
                /\ Ends(t)
                /\ subs'[t.conn] \ {t.mint} = subs[t.conn] \ {t.mint}
                /\ \A c \in Conns \ {t.conn} : subs'[c] = subs[c]
                /\ \A m \in AllMints \ {t.mint} : rooms'[m] = rooms[m]]_vars

\* the subscribe to M1 has failed in its enrolment, after the row was
\* stored, while the connection keeps its subscription to M2
C38_Witness ==
    /\ lastEvt["c1"] = Evt("subscription_error", "M1", "-", NoSnap)
    /\ latest["M1"] # NoSnap
    /\ repeatables = {}
    /\ subs["c1"] = {"M2"}
    /\ rooms["M1"] = {}
    /\ rooms["M2"] = {"c1"}
    /\ tasks = EmptyBag

\* what the queue, the cache store and the persistent store hold for mint k
Holdings(rep, inst, keys, b, lat, hist, k) ==
    [jobs |-> JobsOf(rep, k),
     instances |-> {j \in inst : j.mint = k},
     keys |-> k \in keys,
     ban |-> IF k \in AllMints THEN b[k] ELSE 0,
     latest |-> IF k \in AllMints THEN lat[k] ELSE NoSnap,
     history |-> IF k \in AllMints THEN hist[k] ELSE <<>>]

\* C39: a step of obliterateTokenJobs or removeTokenFromTracking for mint m
\* leaves the repeatable job, the job instances, the queue-internal keys,
\* the ban key, the row and the history of every other mint as they are,
\* also of a mint whose identifier begins with the identifier of m
C39_OnlyThatMint ==
    [][\A t \in Running :
          (Steps(t) /\ t.kind \in {"obliterate", "remove"})
             => \A k \in (AllMints \cup {LONG_MINT}) \ {t.mint} :
                   Holdings(repeatables', instances', bullKeys', ban', latest', history', k)
                      = Holdings(repeatables, instances, bullKeys, ban, latest, history, k)]_vars

====
